---- MODULE Spec2Model ----
(***************************************************************************)
(* Model of the fixos remediation orchestrator:                            *)
(*   - ProblemGraph        (fixos/orchestrator/graph.py)                   *)
(*   - CommandExecutor     (fixos/orchestrator/executor.py)                *)
(*   - FixOrchestrator     (fixos/orchestrator/orchestrator.py)            *)
(*   - LLMClient.chat      (fixos/providers/llm.py)                        *)
(*                                                                         *)
(* Python dicts are modelled as sequences in insertion order, Python lists *)
(* as sequences, command strings as sequences of one-character strings.    *)
(***************************************************************************)
EXTENDS Integers, Sequences, FiniteSets, TLC

VARIABLES
    nodes,            \* ProblemGraph.nodes: Problem records, dict insertion order
    execution_order,  \* ProblemGraph.execution_order: sequence of ids
    pc,               \* position of the running operation
    iteration,        \* run_sync: the loop counter
    problem,          \* run_sync: the object the local variable problem refers to
    live,             \* that object is the graph's node for its id
    cmd_i,            \* run_sync: index of the current command in fix_commands
    last_result,      \* run_sync: the local last_result
    skip_all,         \* run_sync: the local skip_all
    dry_run,          \* CommandExecutor.dry_run
    confirmed,        \* the latest confirm_fn call of the current iteration
    exec_call,        \* the latest executor call (of the current iteration)
    llm_reply,        \* the collaborator's reply of the current iteration
    discoveries,      \* new problems the collaborator has reported, up to MaxDiscoveries
    elapsed,          \* config.session_timeout has run out since _start_time
    log_appended,     \* the entries the latest step appended to session_log
    prompt,           \* the prompt of the collaborator call of the current iteration
    cli_max_iterations,  \* orchestrate: the value of the option --max-iterations
    returned          \* what the latest call of render_tree, chat or _parse_json gave back

vars == <<nodes, execution_order, pc, iteration, problem, live, cmd_i,
          last_result, skip_all, dry_run, confirmed, exec_call, llm_reply,
          discoveries, elapsed, log_appended, prompt, cli_max_iterations, returned>>

(***************************************************************************)
(* Generic sequence helpers                                                *)
(***************************************************************************)
Range(s) == {s[i] : i \in 1..Len(s)}

RECURSIVE Count(_, _)
Count(s, x) ==
    IF s = <<>> THEN 0
    ELSE (IF Head(s) = x THEN 1 ELSE 0) + Count(Tail(s), x)

NoDuplicates(s) == \A i, j \in 1..Len(s) : i # j => s[i] # s[j]

(***************************************************************************)
(* Problem (graph.py)                                                      *)
(***************************************************************************)
DefaultMaxAttempts == 3

\* Problem(...) as the loaders construct it: status, may_cause, attempts and
\* max_attempts take the dataclass defaults.
Problem(id, severity, fix_commands, caused_by) ==
    [id |-> id, severity |-> severity, fix_commands |-> fix_commands,
     status |-> "pending", caused_by |-> caused_by, may_cause |-> <<>>,
     attempts |-> 0, max_attempts |-> DefaultMaxAttempts]

\* mutant: failed problems are retried and the ceiling is ignored
is_actionable_retry_failed(p) == p.status \in {"pending", "failed"}

is_actionable(p) == p.status = "pending" /\ p.attempts < p.max_attempts

(***************************************************************************)
(* ProblemGraph (graph.py)                                                 *)
(***************************************************************************)
NodeIds(ns) == {ns[i].id : i \in 1..Len(ns)}

IndexOf(ns, id) == CHOOSE i \in 1..Len(ns) : ns[i].id = id

get(ns, id) == ns[IndexOf(ns, id)]

\* self.nodes[problem.id] = problem : a dict assignment keeps the position of
\* an existing key and appends a new one.
DictSet(ns, p) ==
    IF p.id \in NodeIds(ns)
    THEN [ns EXCEPT ![IndexOf(ns, p.id)] = p]
    ELSE Append(ns, p)

\* in_degree after the first loop of _recalculate_order: one count per entry
\* of caused_by (duplicates included) that names a node of the graph.
InDegree(ns) ==
    [pid \in NodeIds(ns) |->
        LET cb == get(ns, pid).caused_by
        IN  Cardinality({i \in 1..Len(cb) : cb[i] \in NodeIds(ns)})]

\* The inner loop over p.may_cause: st = <<in_degree, queue>>.
RECURSIVE VisitChildren(_, _)
VisitChildren(children, st) ==
    IF children = <<>> THEN st
    ELSE LET c   == Head(children)
             deg == st[1]
             q   == st[2]
         IN  IF c \in DOMAIN deg
             THEN LET deg2 == [deg EXCEPT ![c] = deg[c] - 1]
                  IN  VisitChildren(Tail(children),
                         <<deg2, IF deg2[c] = 0 THEN Append(q, c) ELSE q>>)
             ELSE VisitChildren(Tail(children), st)

\* The while-queue loop of Kahn's algorithm.
RECURSIVE KahnLoop(_, _, _, _)
KahnLoop(ns, deg, queue, order) ==
    IF queue = <<>> THEN order
    ELSE LET pid == Head(queue)
             st  == VisitChildren(get(ns, pid).may_cause, <<deg, Tail(queue)>>)
         IN  KahnLoop(ns, st[1], st[2], Append(order, pid))

severity_rank(sev) ==
    CASE sev = "critical" -> 0
      [] sev = "warning"  -> 1
      [] sev = "info"     -> 2
      [] OTHER            -> 3

\* mutant: the severity is compared before the root flag
SortKey_severity_first(ns, pid) ==
    2 * severity_rank(get(ns, pid).severity)
        + (IF get(ns, pid).caused_by # <<>> THEN 1 ELSE 0)

\* The sort key (caused_by != [], severity_rank) as one integer.
SortKey(ns, pid) ==
    (IF get(ns, pid).caused_by # <<>> THEN 4 ELSE 0)
        + severity_rank(get(ns, pid).severity)

\* list.sort(key=...) is stable: insertion of each element after the last
\* element whose key is not greater.
RECURSIVE InsertSorted(_, _, _)
InsertSorted(ns, sorted, pid) ==
    IF sorted = <<>> THEN <<pid>>
    ELSE IF SortKey(ns, Head(sorted)) <= SortKey(ns, pid)
         THEN <<Head(sorted)>> \o InsertSorted(ns, Tail(sorted), pid)
         ELSE <<pid>> \o sorted

RECURSIVE StableSort(_, _, _)
StableSort(ns, s, acc) ==
    IF s = <<>> THEN acc
    ELSE StableSort(ns, Tail(s), InsertSorted(ns, acc, Head(s)))

\* mutant: the nodes the sort did not reach (those on a cycle) are left out
_recalculate_order_sorted_only(ns) ==
    LET ids   == [i \in 1..Len(ns) |-> ns[i].id]
        deg   == InDegree(ns)
        queue == SelectSeq(ids, LAMBDA pid : deg[pid] = 0)
    IN  StableSort(ns, KahnLoop(ns, deg, queue, <<>>), <<>>)

_recalculate_order(ns) ==
    LET ids       == [i \in 1..Len(ns) |-> ns[i].id]
        deg       == InDegree(ns)
        queue     == SelectSeq(ids, LAMBDA pid : deg[pid] = 0)
        order     == KahnLoop(ns, deg, queue, <<>>)
        remaining == SelectSeq(ids, LAMBDA pid : pid \notin Range(order))
    IN  StableSort(ns, order \o remaining, <<>>)

\* _recalculate_order lines 128-153: execution_order before the sort
TopologicalPass(ns) ==
    LET ids       == [i \in 1..Len(ns) |-> ns[i].id]
        deg       == InDegree(ns)
        queue     == SelectSeq(ids, LAMBDA pid : deg[pid] = 0)
        order     == KahnLoop(ns, deg, queue, <<>>)
        remaining == SelectSeq(ids, LAMBDA pid : pid \notin Range(order))
    IN  order \o remaining

\* ProblemGraph.add: returns the new nodes; execution_order is recomputed
\* from them by every caller.
add(ns, p) == DictSet(ns, p)

\* mutant: a caused_by id that is no node of the graph blocks the problem
deps_resolved_missing_blocks(ns, p) ==
    \A i \in 1..Len(p.caused_by) :
        /\ p.caused_by[i] \in NodeIds(ns)
        /\ get(ns, p.caused_by[i]).status = "resolved"

deps_resolved(ns, p) ==
    \A i \in 1..Len(p.caused_by) :
        p.caused_by[i] \in NodeIds(ns)
            => get(ns, p.caused_by[i]).status = "resolved"

NoProblem == "none"

\* mutant: the dependencies are not looked at
next_actionable_no_deps(ns, order) ==
    LET ok == {i \in 1..Len(order) : is_actionable(get(ns, order[i]))}
    IN  IF ok = {} THEN NoProblem
        ELSE order[CHOOSE i \in ok : \A j \in ok : i <= j]

\* first id of the order that is actionable with resolved dependencies
next_actionable(ns, order) ==
    LET ok == {i \in 1..Len(order) :
                  /\ is_actionable(get(ns, order[i]))
                  /\ deps_resolved(ns, get(ns, order[i]))}
    IN  IF ok = {} THEN NoProblem
        ELSE order[CHOOSE i \in ok : \A j \in ok : i <= j]

all_done(ns) ==
    \A i \in 1..Len(ns) : ns[i].status \in {"resolved", "failed", "blocked"}

\* One entry of the list lines of render_tree: a node of the walk with its
\* indent, or a node appended at the end as orphaned. The icons and the
\* description of the node are left out of the entry.
TreeLine(pid, indent) == [id |-> pid, indent |-> indent, orphaned |-> FALSE]
OrphanLine(pid) == [id |-> pid, indent |-> 1, orphaned |-> TRUE]
NoProblemsLine == [id |-> "(brak problemow)", indent |-> 0, orphaned |-> FALSE]

\* _render(pid, indent) with its loop over p.may_cause; st = [lines, visited]
RECURSIVE _render(_, _, _, _)
RECURSIVE RenderChildren(_, _, _, _)
_render(ns, pid, indent, st) ==
    IF pid \in st.visited \/ pid \notin NodeIds(ns) THEN st
    ELSE RenderChildren(ns, get(ns, pid).may_cause, indent + 1,
                        [lines |-> Append(st.lines, TreeLine(pid, indent)),
                         visited |-> st.visited \cup {pid}])

RenderChildren(ns, children, indent, st) ==
    IF children = <<>> THEN st
    ELSE RenderChildren(ns, Tail(children), indent,
                        _render(ns, Head(children), indent, st))

\* for root in roots: _render(root.id)
RECURSIVE RenderRoots(_, _, _)
RenderRoots(ns, i, st) ==
    IF i > Len(ns) THEN st
    ELSE RenderRoots(ns, i + 1,
                     IF ns[i].caused_by = <<>> THEN _render(ns, ns[i].id, 0, st) ELSE st)

\* the closing loop: every node not visited is appended as orphaned
RECURSIVE RenderOrphans(_, _, _)
RenderOrphans(ns, i, st) ==
    IF i > Len(ns) THEN st
    ELSE RenderOrphans(ns, i + 1,
                       IF ns[i].id \notin st.visited
                       THEN [st EXCEPT !.lines = Append(@, OrphanLine(ns[i].id))]
                       ELSE st)

\* mutant: the nodes the walk did not reach are dropped
render_tree_no_orphans(ns) ==
    LET st == RenderRoots(ns, 1, [lines |-> <<>>, visited |-> {}])
    IN  IF st.lines # <<>> THEN st.lines ELSE <<NoProblemsLine>>

\* render_tree: the lines joined by "\n", or the text for an empty list
render_tree(ns) ==
    LET walk == RenderRoots(ns, 1, [lines |-> <<>>, visited |-> {}])
        st   == RenderOrphans(ns, 1, walk)
    IN  IF st.lines # <<>> THEN st.lines ELSE <<NoProblemsLine>>

(***************************************************************************)
(* Strings: a Python str is a sequence of one-character strings.           *)
(***************************************************************************)
LowerLetters ==
    {"a", "b", "c", "d", "e", "f", "g", "h", "i", "j", "k", "l", "m",
     "n", "o", "p", "q", "r", "s", "t", "u", "v", "w", "x", "y", "z"}

UpperToLower ==
    [c \in {"A", "B", "C", "D", "E", "F", "G", "H", "I", "J", "K", "L", "M",
            "N", "O", "P", "Q", "R", "S", "T", "U", "V", "W", "X", "Y", "Z"} |->
        CASE c = "A" -> "a" [] c = "B" -> "b" [] c = "C" -> "c" [] c = "D" -> "d"
          [] c = "E" -> "e" [] c = "F" -> "f" [] c = "G" -> "g" [] c = "H" -> "h"
          [] c = "I" -> "i" [] c = "J" -> "j" [] c = "K" -> "k" [] c = "L" -> "l"
          [] c = "M" -> "m" [] c = "N" -> "n" [] c = "O" -> "o" [] c = "P" -> "p"
          [] c = "Q" -> "q" [] c = "R" -> "r" [] c = "S" -> "s" [] c = "T" -> "t"
          [] c = "U" -> "u" [] c = "V" -> "v" [] c = "W" -> "w" [] c = "X" -> "x"
          [] c = "Y" -> "y" [] c = "Z" -> "z"]

Digits == {"0", "1", "2", "3", "4", "5", "6", "7", "8", "9"}

Lower(c) == IF c \in DOMAIN UpperToLower THEN UpperToLower[c] ELSE c

IsSpace(c) == c \in {" ", "\t", "\n"}
IsDigit(c) == c \in Digits
IsLetter(c) == Lower(c) \in LowerLetters
IsWordChar(c) == IsLetter(c) \/ IsDigit(c) \/ c = "_"

\* str.startswith at offset pos (1-based), case-sensitive
StartsWithAt(s, pos, prefix) ==
    /\ pos + Len(prefix) - 1 <= Len(s)
    /\ \A i \in 1..Len(prefix) : s[pos + i - 1] = prefix[i]

startswith(s, prefix) == StartsWithAt(s, 1, prefix)

\* the same under re.IGNORECASE
StartsWithAtNoCase(s, pos, prefix) ==
    /\ pos + Len(prefix) - 1 <= Len(s)
    /\ \A i \in 1..Len(prefix) : Lower(s[pos + i - 1]) = Lower(prefix[i])

RECURSIVE lstrip(_)
lstrip(s) == IF s # <<>> /\ IsSpace(Head(s)) THEN lstrip(Tail(s)) ELSE s

RECURSIVE rstrip(_)
rstrip(s) ==
    IF s # <<>> /\ IsSpace(s[Len(s)]) THEN rstrip(SubSeq(s, 1, Len(s) - 1)) ELSE s

strip(s) == rstrip(lstrip(s))

\* number of consecutive whitespace characters from pos on
RECURSIVE SpaceRun(_, _)
SpaceRun(s, pos) ==
    IF pos <= Len(s) /\ IsSpace(s[pos]) THEN 1 + SpaceRun(s, pos + 1) ELSE 0

\* number of characters from pos to the end of the line ("." matches no newline)
RECURSIVE LineRun(_, _)
LineRun(s, pos) ==
    IF pos <= Len(s) /\ s[pos] # "\n" THEN 1 + LineRun(s, pos + 1) ELSE 0

(***************************************************************************)
(* Regular expressions of executor.py, as sequences of elements.           *)
(*   lit   a literal string            ws    \s+ (min 1) or \s* (min 0)    *)
(*   any   .*                          alt   (?:a|b|...)                   *)
(*   opt   (?:a)?                      az    [a-z]                         *)
(*   nw    (?!\w)      nd  (?!\d)      wb    \b                            *)
(***************************************************************************)
Lit(s)   == [k |-> "lit", s |-> s,    alts |-> {},   min |-> 0]
Ws(min)  == [k |-> "ws",  s |-> <<>>, alts |-> {},   min |-> min]
AnyStar  == [k |-> "any", s |-> <<>>, alts |-> {},   min |-> 0]
Alt(as)  == [k |-> "alt", s |-> <<>>, alts |-> as,   min |-> 0]
Opt(s)   == [k |-> "opt", s |-> s,    alts |-> {},   min |-> 0]
AZ       == [k |-> "az",  s |-> <<>>, alts |-> {},   min |-> 0]
NotWord  == [k |-> "nw",  s |-> <<>>, alts |-> {},   min |-> 0]
NotDigit == [k |-> "nd",  s |-> <<>>, alts |-> {},   min |-> 0]
WordB    == [k |-> "wb",  s |-> <<>>, alts |-> {},   min |-> 0]

WordAt(s, pos) == pos >= 1 /\ pos <= Len(s) /\ IsWordChar(s[pos])

\* Does pat[i..] match s starting at position pos (backtracking, IGNORECASE)?
RECURSIVE MatchAt(_, _, _, _)
MatchAt(pat, i, s, pos) ==
    IF i > Len(pat) THEN TRUE
    ELSE LET e == pat[i] IN
      CASE e.k = "lit" ->
             StartsWithAtNoCase(s, pos, e.s) /\ MatchAt(pat, i + 1, s, pos + Len(e.s))
        [] e.k = "ws" ->
             \E n \in e.min..SpaceRun(s, pos) : MatchAt(pat, i + 1, s, pos + n)
        [] e.k = "any" ->
             \E n \in 0..LineRun(s, pos) : MatchAt(pat, i + 1, s, pos + n)
        [] e.k = "alt" ->
             \E a \in e.alts :
                 StartsWithAtNoCase(s, pos, a) /\ MatchAt(pat, i + 1, s, pos + Len(a))
        [] e.k = "opt" ->
             \/ StartsWithAtNoCase(s, pos, e.s) /\ MatchAt(pat, i + 1, s, pos + Len(e.s))
             \/ MatchAt(pat, i + 1, s, pos)
        [] e.k = "az" ->
             pos <= Len(s) /\ IsLetter(s[pos]) /\ MatchAt(pat, i + 1, s, pos + 1)
        [] e.k = "nw" ->
             ~WordAt(s, pos) /\ MatchAt(pat, i + 1, s, pos)
        [] e.k = "nd" ->
             ~(pos <= Len(s) /\ IsDigit(s[pos])) /\ MatchAt(pat, i + 1, s, pos)
        [] e.k = "wb" ->
             (WordAt(s, pos - 1) # WordAt(s, pos)) /\ MatchAt(pat, i + 1, s, pos)

\* re.search(pattern, s, re.IGNORECASE) is not None
re_search(pat, s) == \E start \in 1..(Len(s) + 1) : MatchAt(pat, 1, s, start)

SystemDirs ==
    { <<"b", "o", "o", "t">>, <<"e", "t", "c">>, <<"u", "s", "r">>, <<"l", "i", "b">>, <<"b", "i", "n">>, <<"s", "b", "i", "n">>, <<"s", "y", "s">>, <<"p", "r", "o", "c">>, <<"d", "e", "v">> }

DiskPrefixes == { <<"s", "d">>, <<"n", "v", "m", "e">>, <<"v", "d">>, <<"h", "d">> }

DANGEROUS_PATTERNS ==
    << <<Lit(<<"r", "m">>), Ws(1), Lit(<<"-", "r", "f">>), Ws(1), Lit(<<"/">>), NotWord>>,
       <<Lit(<<"r", "m">>), Ws(1), Lit(<<"-", "r", "f">>), Ws(1), Lit(<<"/">>), Alt(SystemDirs), WordB>>,
       <<Lit(<<"d", "d">>), Ws(1), Lit(<<"i", "f", "=">>), AnyStar, Lit(<<"o", "f", "=", "/", "d", "e", "v", "/">>),
         Alt(DiskPrefixes), AZ, NotDigit>>,
       <<Lit(<<"m", "k", "f", "s", ".">>)>>,
       <<Lit(<<">">>), Ws(0), Lit(<<"/", "d", "e", "v", "/">>), Alt(DiskPrefixes)>>,
       <<Lit(<<":", "(", ")", "{">>), AnyStar, Lit(<<"}", ";", ":">>)>>,
       <<Lit(<<"c", "h", "m", "o", "d">>), Ws(1), Lit(<<"-", "R">>), Ws(1), Lit(<<"7", "7", "7">>), Ws(1), Lit(<<"/">>)>>,
       <<Lit(<<"c", "h", "o", "w", "n">>), Ws(1), Lit(<<"-", "R">>), Ws(1), AnyStar, Ws(1), Lit(<<"/">>), NotWord>>,
       <<Lit(<<"w", "g", "e", "t">>), AnyStar, Lit(<<"|">>), Ws(0), Opt(<<"b", "a">>), Lit(<<"s", "h">>)>>,
       <<Lit(<<"c", "u", "r", "l">>), AnyStar, Lit(<<"|">>), Ws(0), Opt(<<"b", "a">>), Lit(<<"s", "h">>)>> >>

NEEDS_SUDO_PREFIXES ==
    { <<"d", "n", "f">>, <<"r", "p", "m">>, <<"s", "y", "s", "t", "e", "m", "c", "t", "l">>, <<"f", "i", "r", "e", "w", "a", "l", "l", "-", "c", "m", "d">>, <<"s", "e", "t", "e", "n", "f", "o", "r", "c", "e">>,
      <<"c", "h", "m", "o", "d", " ", "0">>, <<"c", "h", "o", "w", "n">>, <<"m", "o", "d", "p", "r", "o", "b", "e">>, <<"r", "m", "m", "o", "d">>, <<"i", "n", "s", "m", "o", "d">>,
      <<"m", "o", "u", "n", "t">>, <<"u", "m", "o", "u", "n", "t">>, <<"f", "d", "i", "s", "k">>, <<"p", "a", "r", "t", "e", "d">>, <<"l", "v", "e", "x", "t", "e", "n", "d">>,
      <<"u", "s", "e", "r", "a", "d", "d">>, <<"u", "s", "e", "r", "d", "e", "l">>, <<"u", "s", "e", "r", "m", "o", "d">>, <<"g", "r", "o", "u", "p", "a", "d", "d">>,
      <<"u", "p", "d", "a", "t", "e", "-", "g", "r", "u", "b">>, <<"g", "r", "u", "b", "2", "-", "m", "k", "c", "o", "n", "f", "i", "g">> }

\* pattern prefix (the text before "(.+)"), probe prefix, probe suffix
IDEMPOTENT_CHECK ==
    << [pattern |-> <<"d", "n", "f", " ", "i", "n", "s", "t", "a", "l", "l", " ">>, pre |-> <<"r", "p", "m", " ", "-", "q", " ">>,
        post |-> <<" ", "&", ">", "/", "d", "e", "v", "/", "n", "u", "l", "l">>],
       [pattern |-> <<"s", "y", "s", "t", "e", "m", "c", "t", "l", " ", "e", "n", "a", "b", "l", "e", " ">>, pre |-> <<"s", "y", "s", "t", "e", "m", "c", "t", "l", " ", "i", "s", "-", "e", "n", "a", "b", "l", "e", "d", " ">>,
        post |-> <<" ", "&", ">", "/", "d", "e", "v", "/", "n", "u", "l", "l">>],
       [pattern |-> <<"s", "y", "s", "t", "e", "m", "c", "t", "l", " ", "s", "t", "a", "r", "t", " ">>, pre |-> <<"s", "y", "s", "t", "e", "m", "c", "t", "l", " ", "i", "s", "-", "a", "c", "t", "i", "v", "e", " ">>,
        post |-> <<" ", "&", ">", "/", "d", "e", "v", "/", "n", "u", "l", "l">>],
       [pattern |-> <<"m", "k", "d", "i", "r", " ", "-", "p", " ">>, pre |-> <<"t", "e", "s", "t", " ", "-", "d", " ">>, post |-> <<>>] >>

(***************************************************************************)
(* CommandExecutor (executor.py)                                           *)
(***************************************************************************)
is_dangerous(command) ==
    \E i \in 1..Len(DANGEROUS_PATTERNS) : re_search(DANGEROUS_PATTERNS[i], command)

needs_sudo(command) ==
    LET cmd == strip(command)
    IN  IF startswith(cmd, <<"s", "u", "d", "o">>) THEN FALSE
        ELSE \E p \in NEEDS_SUDO_PREFIXES : startswith(cmd, p)

add_sudo_always(command) == <<"s", "u", "d", "o", " ">> \o strip(command)

add_sudo(command) ==
    IF needs_sudo(command) THEN <<"s", "u", "d", "o", " ">> \o strip(command) ELSE command

NoCheck == <<"None">>

\* re.match(pattern + "(.+)", cmd, re.IGNORECASE): the group is the rest of
\* the line after the prefix and must hold at least one character.
IdempotentMatches(command) ==
    LET cmd == strip(command)
    IN  {i \in 1..Len(IDEMPOTENT_CHECK) :
            /\ StartsWithAtNoCase(cmd, 1, IDEMPOTENT_CHECK[i].pattern)
            /\ LineRun(cmd, Len(IDEMPOTENT_CHECK[i].pattern) + 1) >= 1}

check_idempotent(command) ==
    LET cmd == strip(command)
        ms  == IdempotentMatches(command)
    IN  IF ms = {} THEN NoCheck
        ELSE LET i == CHOOSE m \in ms : \A n \in ms : m <= n
                 t == IDEMPOTENT_CHECK[i]
                 g == SubSeq(cmd, Len(t.pattern) + 1,
                             Len(t.pattern) + LineRun(cmd, Len(t.pattern) + 1))
             IN  t.pre \o g \o t.post

\* stdout and stderr are sequences of words
AlreadyDone == <<"(already done - state is current)">>

\* ExecutionResult(...) with the dataclass defaults
ExecutionResult(command) ==
    [command |-> command, returncode |-> 0, stdout |-> <<>>, stderr |-> <<>>,
     executed |-> TRUE,
     preview |-> <<>>, timed_out |-> FALSE, error |-> "None"]

success(r) == r.executed /\ r.returncode = 0

NoResult == [command |-> <<>>, returncode |-> 0, stdout |-> <<"None">>,
             stderr |-> <<"None">>, executed |-> FALSE,
             preview |-> <<>>, timed_out |-> FALSE, error |-> "None"]

\* What the operating system answers to the calls of one execution:
\*   probe: the idempotency probe exits 0, exits non-zero, or raises
\*   run:   the command exits with a code, times out, exits at the moment
\*          the deadline expires, or cannot be spawned
ProbeAnswers == {"exit0", "exit1", "exception"}
RunAnswers == {"exit0", "exit1", "timeout", "timeout_exited", "spawn_error"}
OsAnswers == [probe : ProbeAnswers, run : RunAnswers]

Returned(r, steps) == [outcome |-> "returned", result |-> r, steps |-> steps]
Raised(exc, steps) == [outcome |-> exc, result |-> NoResult, steps |-> steps]

Step(op, command) == [op |-> op, command |-> command]

\* The tail of execute_sync and execute from the dry_run test on.
RunCommand(command, dry, os, steps) ==
    IF dry
    THEN Returned([ExecutionResult(command) EXCEPT
                      !.executed = FALSE, !.preview = <<"[", "D", "R", "Y", "-", "R", "U", "N", "]", " ">> \o command],
                  steps)
    ELSE LET st == Append(steps, Step("subprocess", command))
         IN  CASE os.run \in {"timeout", "timeout_exited"} ->
                    Raised("CommandTimeoutError", st)
               [] os.run = "spawn_error" ->
                    Returned([ExecutionResult(command) EXCEPT
                                 !.executed = FALSE, !.error = "spawn failed"], st)
               [] os.run = "exit0" ->
                    Returned([ExecutionResult(command) EXCEPT !.stdout = <<"out">>], st)
               [] os.run = "exit1" ->
                    Returned([ExecutionResult(command) EXCEPT
                                 !.returncode = 1, !.stdout = <<"out">>], st)

\* mutant: the danger check runs after elevation and the idempotency probe
execute_sync_late_check(command, dry, sudo, idem, os) ==
    LET cmd1  == IF sudo THEN add_sudo(command) ELSE command
        s1    == IF sudo THEN <<Step("add_sudo", cmd1)>> ELSE <<>>
        check == IF idem THEN check_idempotent(cmd1) ELSE NoCheck
        s2    == IF check # NoCheck THEN Append(s1, Step("probe", check)) ELSE s1
        s3    == Append(s2, Step("is_dangerous", command))
    IN  IF check # NoCheck /\ os.probe = "exit0"
        THEN Returned([ExecutionResult(cmd1) EXCEPT
                          !.stdout = AlreadyDone, !.executed = FALSE], s2)
        ELSE IF is_dangerous(command)
             THEN Raised("DangerousCommandError", s3)
             ELSE RunCommand(cmd1, dry, os, s3)

\* CommandExecutor.execute_sync(command, add_sudo, check_idempotent) on an
\* executor built with dry_run; steps lists, in order, what the call did.
execute_sync(command, dry, sudo, idem, os) ==
    LET s0 == <<Step("is_dangerous", command)>>
    IN  IF is_dangerous(command)
        THEN Raised("DangerousCommandError", s0)
        ELSE
          LET cmd1  == IF sudo THEN add_sudo(command) ELSE command
              s1    == IF sudo THEN Append(s0, Step("add_sudo", cmd1)) ELSE s0
              check == IF idem THEN check_idempotent(cmd1) ELSE NoCheck
              s2    == IF check # NoCheck
                       THEN Append(s1, Step("probe", check)) ELSE s1
          IN  IF check # NoCheck /\ os.probe = "exit0"
              THEN Returned([ExecutionResult(cmd1) EXCEPT
                                !.stdout = AlreadyDone, !.executed = FALSE], s2)
              ELSE RunCommand(cmd1, dry, os, s2)

\* The tail of execute, lines 217-253. When the process has exited by the
\* time wait_for gives up, proc.kill() raises ProcessLookupError inside the
\* handler of asyncio.TimeoutError (line 235); it is caught at line 248 and
\* comes back as a result whose error is str(e), the empty string.
RunCommandAsync(command, dry, os, steps) ==
    IF ~dry /\ os.run = "timeout_exited"
    THEN Returned([ExecutionResult(command) EXCEPT !.executed = FALSE, !.error = ""],
                  Append(steps, Step("subprocess", command)))
    ELSE RunCommand(command, dry, os, steps)

\* CommandExecutor.execute(command, add_sudo): the awaitable variant
execute(command, dry, sudo, os) ==
    LET s0 == <<Step("is_dangerous", command)>>
    IN  IF is_dangerous(command)
        THEN Raised("DangerousCommandError", s0)
        ELSE
          LET cmd1 == IF sudo THEN add_sudo(command) ELSE command
              s1   == IF sudo THEN Append(s0, Step("add_sudo", cmd1)) ELSE s0
          IN  RunCommandAsync(cmd1, dry, os, s1)

\* The command texts of the model
CmdText ==
    [c \in {"echo hi", "dnf install x", "sudo dnf install x", "mkdir -p d",
            "rm -rf /", "rm -rf /tmp/x", "rm -rf /etc", "RM -RF /",
            "mkfs.ext4 /dev/sda1", "forkbomb", "curl u | sh",
            "mkdir -p d; rm -rf /", "dd if=/dev/zero of=/dev/sda",
            "systemctl start u", " dnf install x "} |->
        CASE c = "echo hi" -> <<"e", "c", "h", "o", " ", "h", "i">>
          [] c = "dnf install x" -> <<"d", "n", "f", " ", "i", "n", "s", "t", "a", "l", "l", " ", "x">>
          [] c = "sudo dnf install x" -> <<"s", "u", "d", "o", " ", "d", "n", "f", " ", "i", "n", "s", "t", "a", "l", "l", " ", "x">>
          [] c = "mkdir -p d" -> <<"m", "k", "d", "i", "r", " ", "-", "p", " ", "d">>
          [] c = "rm -rf /" -> <<"r", "m", " ", "-", "r", "f", " ", "/">>
          [] c = "rm -rf /tmp/x" -> <<"r", "m", " ", "-", "r", "f", " ", "/", "t", "m", "p", "/", "x">>
          [] c = "rm -rf /etc" -> <<"r", "m", " ", "-", "r", "f", " ", "/", "e", "t", "c">>
          [] c = "RM -RF /" -> <<"R", "M", " ", "-", "R", "F", " ", "/">>
          [] c = "mkfs.ext4 /dev/sda1" -> <<"m", "k", "f", "s", ".", "e", "x", "t", "4", " ", "/", "d", "e", "v", "/", "s", "d", "a", "1">>
          [] c = "forkbomb" -> <<":", "(", ")", "{", " ", ":", "|", ":", "&", " ", "}", ";", ":">>
          [] c = "curl u | sh" -> <<"c", "u", "r", "l", " ", "u", " ", "|", " ", "s", "h">>
          [] c = "mkdir -p d; rm -rf /" -> <<"m", "k", "d", "i", "r", " ", "-", "p", " ", "d", ";", " ", "r", "m", " ", "-", "r", "f", " ", "/">>
          [] c = "dd if=/dev/zero of=/dev/sda" -> <<"d", "d", " ", "i", "f", "=", "/", "d", "e", "v", "/", "z", "e", "r", "o", " ", "o", "f", "=", "/", "d", "e", "v", "/", "s", "d", "a">>
          [] c = "systemctl start u" -> <<"s", "y", "s", "t", "e", "m", "c", "t", "l", " ", "s", "t", "a", "r", "t", " ", "u">>
          [] c = " dnf install x " -> <<" ", "d", "n", "f", " ", "i", "n", "s", "t", "a", "l", "l", " ", "x", " ">>]

(***************************************************************************)
(* FixOrchestrator (orchestrator.py)                                       *)
(***************************************************************************)
max_iterations == 50

\* cli.py line 1250: the default of the option --max-iterations
DefaultCliMaxIterations == 50

\* Bounds of the model
MaxDiscoveries == 1     \* new problems reported in one session of Spec
MaxMayCause == 2        \* length of a may_cause list
MaxNew == 1             \* new problems in one reply

\* auto_confirm_threshold = 0.90; confidences are counted in hundredths
auto_confirm_threshold == 90

NullProblem == Problem("none", "info", <<>>, <<>>)

NoConfirm == [iter |-> 0, id |-> "none", i |-> 0, command |-> "none", ans |-> "none"]

\* the operating system's answers are kept with a call in SpecExec only
NoOs == [probe |-> "none", run |-> "none"]

NoCall ==
    [iter |-> 0, id |-> "none", i |-> 0, command |-> "none", mode |-> "none",
     dry_run |-> FALSE, sudo |-> FALSE, idem |-> FALSE, os |-> NoOs,
     outcome |-> "none", result |-> NoResult, steps |-> <<>>]

\* no call of render_tree, chat or _parse_json has returned yet
NoReturn == [op |-> "none", outcome |-> "none", value |-> <<>>]

NoReply ==
    [shape |-> "none", kind |-> "none", verdict |-> "none", confidence |-> 0,
     new_problems |-> <<>>]

\* _log: the entry appended to session_log (its timestamp, the time since
\* _start_time, is left out; the payload is cut down to an id and a command)
LogEntry(event, problem_id, command) ==
    [event |-> event, problem_id |-> problem_id, command |-> command]

(***************************************************************************)
(* anonymize (utils/anonymizer.py) over texts that are sequences of words  *)
(***************************************************************************)
HostnameWords == {"host1"}        \* socket.gethostname()
UsernameWords == {"alice"}        \* getpass.getuser()
IPv4Words     == {"10.1.2.3"}
SecretWords   == {"password=x"}
PlainWords    == {"ok", "out"}

SensitiveWords == HostnameWords \cup UsernameWords \cup IPv4Words \cup SecretWords

\* the replacements of anonymize, in its order, on one word
AnonymizeWord(w) ==
    IF w \in HostnameWords THEN "[HOSTNAME]"
    ELSE IF w \in UsernameWords THEN "[USER]"
    ELSE IF w \in IPv4Words THEN "10.1.XXX.XXX"
    ELSE IF w \in SecretWords THEN "password=[REDACTED]"
    ELSE w

anonymize(text) == [i \in 1..Len(text) |-> AnonymizeWord(text[i])]

\* text[:limit]
Truncate(text, limit) ==
    IF Len(text) <= limit THEN text ELSE SubSeq(text, 1, limit)

StdoutLimit == 1500
StderrLimit == 500
DiagnosticLimit == 6000

NoPrompt == [kind |-> "none"]

\* mutant: stderr goes into the prompt as the command wrote it
evaluate_prompt_raw_stderr(p, result) ==
    [kind |-> "evaluate", problem_id |-> p.id, command |-> result.command,
     returncode |-> result.returncode,
     stdout |-> Truncate(anonymize(result.stdout), StdoutLimit),
     stderr |-> Truncate(result.stderr, StderrLimit)]

\* _evaluate_and_rediagnose lines 257-267: EVALUATE_PROMPT.format(...)
evaluate_prompt(p, result) ==
    [kind |-> "evaluate", problem_id |-> p.id, command |-> result.command,
     returncode |-> result.returncode,
     stdout |-> Truncate(anonymize(result.stdout), StdoutLimit),
     stderr |-> Truncate(anonymize(result.stderr), StderrLimit)]

\* str(diagnostics): the text of the whole snapshot, os_release included
Str(diagnostics) == diagnostics.os_release \o diagnostics.data

\* load_from_diagnostics lines 114-124: DIAGNOSE_PROMPT.format(...)
diagnose_prompt(diagnostics, ns) ==
    [kind |-> "diagnose",
     os_info |-> anonymize(diagnostics.os_release),
     known_problems |-> [i \in 1..Len(ns) |-> ns[i].id],
     diagnostic_data |-> Truncate(anonymize(Str(diagnostics)), DiagnosticLimit)]

\* what a command writes when its output holds nothing sensitive
PlainOutput == [stdout |-> <<"out">>, stderr |-> <<>>]

\* load_from_dict: one Problem per dict, added in list order
RECURSIVE load_from_dict(_, _)
load_from_dict(ns, problems_data) ==
    IF problems_data = <<>> THEN ns
    ELSE LET pd == Head(problems_data)
         IN  load_from_dict(
                 add(ns, Problem(pd.id, pd.severity, pd.fix_commands, pd.related_to)),
                 Tail(problems_data))

\* writes through the local variable problem reach the graph while the object
\* is still the graph's node
StoreProblem(ns, p, isLive) == IF isLive THEN DictSet(ns, p) ELSE ns

\* mutant: the cap is tested one iteration late
LoopContinuesOffByOne(ns, it) == ~all_done(ns) /\ it <= max_iterations

\* run_sync line 185: the test of the while loop
LoopContinues(ns, it) == ~all_done(ns) /\ it < max_iterations

\* mutant: a retry resumes behind the first command
ForStart_resume(p) == IF p.attempts > 1 /\ Len(p.fix_commands) > 1 THEN 2 ELSE 1

\* run_sync line 196, for cmd in problem.fix_commands: the position the loop
\* starts at, in every attempt
ForStart(p) == 1

\* run_sync lines 185-192: the loop test, the selection, in_progress, attempts
LoopHead ==
    /\ pc = "loop"
    /\ confirmed' = NoConfirm
    /\ exec_call' = NoCall
    /\ llm_reply' = NoReply
    /\ prompt' = NoPrompt
    /\ log_appended' = <<>>
    /\ UNCHANGED <<execution_order, dry_run, discoveries, elapsed, cli_max_iterations, returned>>
    /\ IF ~LoopContinues(nodes, iteration)
       THEN /\ pc' = "done"
            /\ UNCHANGED <<nodes, iteration, problem, live, cmd_i, last_result, skip_all>>
       ELSE LET pid == next_actionable(nodes, execution_order)
            IN  /\ iteration' = iteration + 1
                /\ IF pid = NoProblem
                   THEN /\ pc' = "done"
                        /\ problem' = NullProblem
                        /\ live' = FALSE
                        /\ UNCHANGED <<nodes, cmd_i, last_result, skip_all>>
                   ELSE LET p == [get(nodes, pid) EXCEPT
                                     !.status = "in_progress",
                                     !.attempts = @ + 1]
                        IN  /\ problem' = p
                            /\ live' = TRUE
                            /\ nodes' = DictSet(nodes, p)
                            /\ last_result' = NoResult
                            /\ skip_all' = FALSE
                            /\ cmd_i' = ForStart(p)
                            /\ pc' = IF p.fix_commands = <<>>
                                     THEN "after_for" ELSE "confirm"

ConfirmAnswers == {"yes", "no", "skip_all"}

\* mutant: a refusal does not leave the for loop
AfterConfirmNoBreak(ans) == IF ans = "skip_all" THEN "after_for" ELSE "execute"

\* run_sync lines 199-210: only an approval reaches the executor; a refusal
\* and _SkipAll leave the for loop
AfterConfirm(ans) == IF ans = "yes" THEN "execute" ELSE "after_for"

\* run_sync lines 198-210: confirm_fn(problem, cmd) answers True, False or
\* raises _SkipAll
Confirm(ans) ==
    /\ pc = "confirm"
    /\ confirmed' = [iter |-> iteration, id |-> problem.id, i |-> cmd_i,
                     command |-> problem.fix_commands[cmd_i], ans |-> ans]
    /\ UNCHANGED <<execution_order, iteration, live, cmd_i, last_result, dry_run,
                   exec_call, llm_reply, discoveries, elapsed, prompt,
                   cli_max_iterations, returned>>
    /\ pc' = AfterConfirm(ans)
    /\ log_appended' =
           CASE ans = "no" ->
                  <<LogEntry("skipped", problem.id, problem.fix_commands[cmd_i])>>
             [] ans = "skip_all" -> <<LogEntry("skipped_all", problem.id, "none")>>
             [] OTHER -> <<>>
    /\ CASE ans = "yes" ->
              UNCHANGED <<nodes, problem, skip_all>>
         [] ans = "no" ->
              /\ problem' = [problem EXCEPT !.status = "skipped"]
              /\ nodes' = StoreProblem(nodes, problem', live)
              /\ UNCHANGED skip_all
         [] ans = "skip_all" ->
              /\ skip_all' = TRUE
              /\ problem' = [problem EXCEPT !.status = "skipped"]
              /\ nodes' = StoreProblem(nodes, problem', live)

\* execute_sync and execute tabulated over the model's commands and
\* arguments, one level per argument:
\*   ExecuteSyncTable[command][dry_run][add_sudo][check_idempotent][os]
\*   ExecuteTable[command][dry_run][add_sudo][os]
SyncLevels == <<DOMAIN CmdText, BOOLEAN, BOOLEAN, BOOLEAN, OsAnswers>>
AsyncLevels == <<DOMAIN CmdText, BOOLEAN, BOOLEAN, OsAnswers>>

RECURSIVE TabulateSync(_, _)
TabulateSync(args, keys) ==
    IF keys = {} THEN <<>>
    ELSE LET k == CHOOSE x \in keys : TRUE
             a == Append(args, k)
         IN  (k :> IF Len(a) = Len(SyncLevels)
                   THEN execute_sync(CmdText[a[1]], a[2], a[3], a[4], a[5])
                   ELSE TabulateSync(a, SyncLevels[Len(a) + 1]))
                 @@ TabulateSync(args, keys \ {k})

RECURSIVE TabulateAsync(_, _)
TabulateAsync(args, keys) ==
    IF keys = {} THEN <<>>
    ELSE LET k == CHOOSE x \in keys : TRUE
             a == Append(args, k)
         IN  (k :> IF Len(a) = Len(AsyncLevels)
                   THEN execute(CmdText[a[1]], a[2], a[3], a[4])
                   ELSE TabulateAsync(a, AsyncLevels[Len(a) + 1]))
                 @@ TabulateAsync(args, keys \ {k})

ExecuteSyncTable == TabulateSync(<<>>, SyncLevels[1])

ExecuteTable == TabulateAsync(<<>>, AsyncLevels[1])

\* execute_sync lines 185-191: the result of a command that ran carries the
\* output the process wrote
Captured(r, out) ==
    IF r.outcome = "returned" /\ r.result.executed
    THEN [r EXCEPT !.result.stdout = out.stdout, !.result.stderr = out.stderr]
    ELSE r

\* for cmd in problem.fix_commands: the next command, or the end of the loop
NextCommand == IF cmd_i < Len(problem.fix_commands) THEN "confirm" ELSE "after_for"

\* run_sync lines 212-228: self.executor.execute_sync(cmd) and its handlers
Execute(os, out) ==
    /\ pc = "execute"
    /\ LET cmd == problem.fix_commands[cmd_i]
           r   == Captured(ExecuteSyncTable[cmd][dry_run][TRUE][TRUE][os], out)
       IN  /\ exec_call' = [iter |-> iteration, id |-> problem.id, i |-> cmd_i,
                            command |-> cmd, mode |-> "sync", dry_run |-> dry_run,
                            sudo |-> TRUE, idem |-> TRUE, os |-> NoOs,
                            outcome |-> r.outcome, result |-> r.result,
                            steps |-> r.steps]
           /\ CASE r.outcome = "returned" ->
                     /\ last_result' = r.result
                     /\ IF ~success(r.result) /\ r.result.executed
                        THEN pc' = "after_for" /\ UNCHANGED cmd_i
                        ELSE pc' = NextCommand /\ cmd_i' = cmd_i + 1
                     /\ log_appended' = <<LogEntry("executed", "none", cmd)>>
                     /\ UNCHANGED <<nodes, problem>>
                [] r.outcome = "DangerousCommandError" ->
                     /\ log_appended' = <<LogEntry("dangerous_blocked", "none", cmd)>>
                     /\ problem' = [problem EXCEPT !.status = "failed"]
                     /\ nodes' = StoreProblem(nodes, problem', live)
                     /\ pc' = "after_for"
                     /\ UNCHANGED <<last_result, cmd_i>>
                [] r.outcome = "CommandTimeoutError" ->
                     /\ last_result' = [ExecutionResult(CmdText[cmd]) EXCEPT
                                           !.timed_out = TRUE, !.executed = FALSE]
                     /\ pc' = "after_for"
                     /\ log_appended' = <<>>
                     /\ UNCHANGED <<nodes, problem, cmd_i>>
    /\ UNCHANGED <<execution_order, iteration, live, skip_all, dry_run, confirmed,
                   llm_reply, discoveries, elapsed, prompt, cli_max_iterations, returned>>

\* mutant: the threshold itself is not accepted
VerdictStatusStrict(p, reply) ==
    IF \/ reply.verdict = "resolved"
       \/ (reply.verdict = "partial" /\ reply.confidence > auto_confirm_threshold)
    THEN "resolved"
    ELSE IF p.attempts >= p.max_attempts THEN "failed" ELSE "pending"

\* What llm.chat hands to _evaluate_and_rediagnose: it raises LLMError, or it
\* returns text that is no JSON, JSON that is no object, an object whose
\* confidence is null or a word, an object whose new_problems holds an entry
\* that is no object, or a well-formed object.
ReplyShapes ==
    {"transport_error", "no_json", "not_object", "confidence_null",
     "confidence_text", "bad_new_problem", "well_formed"}

\* the exception lines 270-302 raise on a reply of the shape
Raises(shape) ==
    CASE shape = "transport_error" -> "LLMError"        \* llm.chat, line 270
      [] shape = "no_json"         -> "ValueError"      \* _parse_json, line 334
      [] shape = "not_object"      -> "AttributeError"  \* data.get, line 276
      [] shape = "confidence_null" -> "TypeError"       \* float(None), line 277
      [] shape = "confidence_text" -> "ValueError"      \* float("high"), line 277
      [] shape = "bad_new_problem" -> "AttributeError"  \* pd.get, line 296
      [] OTHER                     -> "none"

\* line 305: except (LLMError, ValueError)
Caught(exc) == exc \in {"LLMError", "ValueError"}

\* how _evaluate_and_rediagnose ends on a reply of the shape: with the verdict
\* applied, in the fallback, or with an exception that leaves run_sync, before
\* or after the verdict was applied
ReplyKind(shape) ==
    IF Raises(shape) = "none" THEN "verdict"
    ELSE IF Caught(Raises(shape)) THEN "error"
    ELSE IF shape = "bad_new_problem" THEN "uncaught_late" ELSE "uncaught"

\* _evaluate_and_rediagnose lines 279-284
VerdictStatus(p, reply) ==
    IF \/ reply.verdict = "resolved"
       \/ (reply.verdict = "partial" /\ reply.confidence >= auto_confirm_threshold)
    THEN "resolved"
    ELSE IF p.attempts >= p.max_attempts THEN "failed" ELSE "pending"

\* _evaluate_and_rediagnose lines 308-313
FallbackStatus(p, result) ==
    IF success(result) THEN "resolved"
    ELSE IF p.attempts >= p.max_attempts THEN "failed" ELSE "pending"

\* run_sync lines 236-239, for one new problem np; st = [problem, nodes, live]
LinkAndAdd(st, pd) ==
    LET np == [Problem(pd.id, pd.severity, pd.fix_commands, pd.related_to) EXCEPT
                  !.caused_by = Append(@, st.problem.id)]
        p2 == [st.problem EXCEPT !.may_cause = Append(@, np.id)]
    IN  [problem |-> p2,
         nodes   |-> add(StoreProblem(st.nodes, p2, st.live), np),
         live    |-> st.live /\ np.id # p2.id]

RECURSIVE AddNewProblems(_, _)
AddNewProblems(st, new_problems) ==
    IF new_problems = <<>> THEN st
    ELSE AddNewProblems(LinkAndAdd(st, Head(new_problems)), Tail(new_problems))

\* mutant: _SkipAll does not end the iteration
SkipsEvaluationNoContinue(skip, result) == result = NoResult

\* run_sync lines 230-234: no verdict is asked for after _SkipAll or when no
\* result was recorded
SkipsEvaluation(skip, result) == skip \/ result = NoResult

\* run_sync lines 230-240 with _evaluate_and_rediagnose: the end of an iteration
AfterFor(reply) ==
    /\ pc = "after_for"
    /\ UNCHANGED <<iteration, cmd_i, last_result, skip_all, dry_run, confirmed,
                   exec_call, elapsed, cli_max_iterations, returned>>
    /\ IF SkipsEvaluation(skip_all, last_result)
       THEN /\ reply = NoReply
            /\ pc' = "loop"
            /\ log_appended' = <<>>
            /\ UNCHANGED <<nodes, execution_order, problem, live, llm_reply,
                           discoveries, prompt>>
       ELSE /\ reply # NoReply
            /\ llm_reply' = reply
            /\ prompt' = evaluate_prompt(problem, last_result)
            /\ log_appended' =
                   CASE reply.kind = "error" ->
                          <<LogEntry("evaluate_error", "none", "none")>>
                     [] reply.kind \in {"verdict", "uncaught_late"} ->
                          <<LogEntry("evaluate", problem.id, "none")>>
                     [] OTHER -> <<>>
            /\ CASE reply.kind = "uncaught" ->
                      \* an exception other than LLMError and ValueError
                      /\ pc' = "raised"
                      /\ UNCHANGED <<nodes, execution_order, problem, live, discoveries>>
                 [] reply.kind = "uncaught_late" ->
                      \* the verdict is applied at 279-284, line 296 raises
                      /\ problem' = [problem EXCEPT
                                        !.status = VerdictStatus(problem, reply)]
                      /\ nodes' = StoreProblem(nodes, problem', live)
                      /\ pc' = "raised"
                      /\ UNCHANGED <<execution_order, live, discoveries>>
                 [] reply.kind = "error" ->
                      /\ problem' = [problem EXCEPT
                                        !.status = FallbackStatus(problem, last_result)]
                      /\ nodes' = StoreProblem(nodes, problem', live)
                      /\ pc' = "loop"
                      /\ UNCHANGED <<execution_order, live, discoveries>>
                 [] reply.kind = "verdict" ->
                      LET p1 == [problem EXCEPT !.status = VerdictStatus(problem, reply)]
                          st == AddNewProblems(
                                    [problem |-> p1,
                                     nodes |-> StoreProblem(nodes, p1, live),
                                     live |-> live],
                                    reply.new_problems)
                      IN  /\ problem' = st.problem
                          /\ nodes' = st.nodes
                          /\ live' = st.live
                          /\ execution_order' =
                                 IF reply.new_problems = <<>> THEN execution_order
                                 ELSE _recalculate_order(st.nodes)
                          /\ discoveries' =
                                 IF discoveries + Len(reply.new_problems) < MaxDiscoveries
                                 THEN discoveries + Len(reply.new_problems)
                                 ELSE MaxDiscoveries
                          /\ pc' = "loop"

(***************************************************************************)
(* Specification Spec: one run_sync session on a graph that load_from_dict *)
(* has filled, with every answer of the confirmation policy, the operating *)
(* system and the collaborator.                                            *)
(***************************************************************************)
Ids == {"p1", "p2"}

FixLists ==
    { <<>>, <<"echo hi">>, <<"echo hi", "rm -rf /">>, <<"mkdir -p d", "echo hi">> }

NewFixLists == { <<"echo hi">> }

\* <<verdict, confidence in hundredths>> of a well-formed reply
VerdictInputs ==
    { <<"resolved", 50>>, <<"failed", 95>>, <<"partial", 89>>, <<"partial", 90>> }

VerdictInputsCap == { <<"resolved", 95>>, <<"failed", 50>> }

ProblemDict(id, severity, fix_commands, related_to) ==
    [id |-> id, severity |-> severity, fix_commands |-> fix_commands,
     related_to |-> related_to]

SeedLists ==
    { <<ProblemDict("p1", "warning", c1, <<>>)>> : c1 \in FixLists }
    \cup
    { <<ProblemDict("p1", "warning", c1, <<>>), ProblemDict("p2", s2, c2, r2)>> :
        c1 \in FixLists, c2 \in NewFixLists,
        s2 \in {"critical", "warning"}, r2 \in {<<>>, <<"p1">>} }

\* the lists of new problems a reply may carry for the current problem
NewProblemLists(fixLists, relatedTo, maxNew) ==
    LET dicts == { ProblemDict(id, "warning", c, r) :
                     id \in Ids, c \in fixLists, r \in relatedTo }
    IN  UNION { [1..n -> dicts] : n \in 0..maxNew }

Replies(verdicts, fixLists, relatedTo, maxNew, room) ==
    { [shape |-> sh, kind |-> ReplyKind(sh), verdict |-> "none", confidence |-> 0,
       new_problems |-> <<>>] :
        sh \in ReplyShapes \ {"bad_new_problem", "well_formed"} }
    \cup
    { [shape |-> "bad_new_problem", kind |-> ReplyKind("bad_new_problem"),
       verdict |-> v[1], confidence |-> v[2], new_problems |-> <<>>] :
        v \in verdicts }
    \cup
    { [shape |-> "well_formed", kind |-> ReplyKind("well_formed"),
       verdict |-> v[1], confidence |-> v[2], new_problems |-> n] :
        v \in verdicts,
        n \in { l \in NewProblemLists(fixLists, relatedTo, maxNew) :
                  /\ Len(l) <= room
                  /\ Len(problem.may_cause) + Len(l) <= MaxMayCause } }

Init ==
    /\ \E seed \in SeedLists : nodes = load_from_dict(<<>>, seed)
    /\ execution_order = _recalculate_order(nodes)
    /\ pc = "loop"
    /\ iteration = 0
    /\ problem = NullProblem
    /\ live = FALSE
    /\ cmd_i = 0
    /\ last_result = NoResult
    /\ skip_all = FALSE
    /\ dry_run \in BOOLEAN
    /\ confirmed = NoConfirm
    /\ exec_call = NoCall
    /\ llm_reply = NoReply
    /\ discoveries = 0
    /\ elapsed = FALSE
    /\ log_appended = <<>>
    /\ prompt = NoPrompt
    /\ cli_max_iterations = DefaultCliMaxIterations
    /\ returned = NoReturn

Next ==
    \/ LoopHead
    \/ \E ans \in ConfirmAnswers : Confirm(ans)
    \/ \E os \in OsAnswers : Execute(os, PlainOutput)
    \/ \E reply \in Replies(VerdictInputs, NewFixLists, {<<>>, <<problem.id>>}, MaxNew,
                           MaxDiscoveries - discoveries) \cup {NoReply} :
           AfterFor(reply)

Spec == Init /\ [][Next]_vars

(***************************************************************************)
(* Specification SpecCap: a run_sync session in which the collaborator may *)
(* report new problems, and report existing ids again, without limit.      *)
(***************************************************************************)
InitCap ==
    /\ nodes = load_from_dict(<<>>, <<ProblemDict("p1", "warning", <<"echo hi">>, <<>>)>>)
    /\ execution_order = _recalculate_order(nodes)
    /\ pc = "loop"
    /\ iteration = 0
    /\ problem = NullProblem
    /\ live = FALSE
    /\ cmd_i = 0
    /\ last_result = NoResult
    /\ skip_all = FALSE
    /\ dry_run = FALSE
    /\ confirmed = NoConfirm
    /\ exec_call = NoCall
    /\ llm_reply = NoReply
    /\ discoveries = 0
    /\ elapsed = FALSE
    /\ log_appended = <<>>
    /\ prompt = NoPrompt
    /\ cli_max_iterations = DefaultCliMaxIterations
    /\ returned = NoReturn

NextCap ==
    \/ LoopHead
    \/ \E ans \in ConfirmAnswers : Confirm(ans)
    \/ \E os \in OsAnswers : Execute(os, PlainOutput)
    \/ \E reply \in Replies(VerdictInputsCap, NewFixLists, {<<>>}, MaxNew, MaxNew) \cup {NoReply} :
           AfterFor(reply)

SpecCap == InitCap /\ [][NextCap]_vars

\* every call of the session returns: the loop is never left waiting
FairSpecCap == SpecCap /\ WF_vars(NextCap)

(***************************************************************************)
(* Specification SpecDeadline: the session of SpecCap while the time of    *)
(* config.session_timeout runs out at any moment.                          *)
(***************************************************************************)
\* time.time() - _start_time passes config.session_timeout (config.py line 94)
DeadlinePasses ==
    /\ ~elapsed
    /\ pc \notin {"done", "raised"}
    /\ elapsed' = TRUE
    /\ UNCHANGED <<nodes, execution_order, pc, iteration, problem, live, cmd_i,
                   last_result, skip_all, dry_run, confirmed, exec_call, llm_reply,
                   discoveries, log_appended, prompt, cli_max_iterations, returned>>

NextDeadline ==
    \/ NextCap
    \/ DeadlinePasses

SpecDeadline == InitCap /\ [][NextDeadline]_vars

(***************************************************************************)
(* Specification SpecPrompt: load_from_diagnostics on a raw snapshot, then *)
(* run_sync with commands whose output holds sensitive words.              *)
(***************************************************************************)
DiagnosticsInputs ==
    [os_release : {<<"ok">>, <<"host1">>},
     data : {<<"ok">>, <<"alice", "10.1.2.3">>, <<"password=x">>}]

SensitiveOutputs ==
    [stdout : {<<"ok">>, <<"host1", "ok">>, <<"10.1.2.3">>, <<"password=x">>},
     stderr : {<<>>, <<"alice", "host1">>}]

\* the replies to the diagnose call: a failure, or a list of new problems
DiagnoseReplies ==
    { [shape |-> sh, kind |-> ReplyKind(sh), verdict |-> "none", confidence |-> 0,
       new_problems |-> <<>>] :
        sh \in {"transport_error", "no_json", "not_object"} }
    \cup
    { [shape |-> "well_formed", kind |-> ReplyKind("well_formed"),
       verdict |-> "none", confidence |-> 0, new_problems |-> n] :
        n \in NewProblemLists(NewFixLists, {<<>>}, MaxNew) }

\* load_from_diagnostics lines 112-148
LoadFromDiagnostics(diagnostics, reply) ==
    /\ pc = "load"
    /\ prompt' = diagnose_prompt(diagnostics, nodes)
    /\ llm_reply' = reply
    /\ CASE reply.kind = "verdict" ->
              /\ nodes' = load_from_dict(nodes, reply.new_problems)
              /\ execution_order' = _recalculate_order(nodes')
              /\ log_appended' = <<LogEntry("diagnose", "none", "none")>>
              /\ pc' = "loop"
         [] reply.kind = "error" ->
              /\ log_appended' = <<LogEntry("diagnose_error", "none", "none")>>
              /\ pc' = "loop"
              /\ UNCHANGED <<nodes, execution_order>>
         [] OTHER ->
              \* an exception other than LLMError and ValueError
              /\ log_appended' = <<>>
              /\ pc' = "raised"
              /\ UNCHANGED <<nodes, execution_order>>
    /\ UNCHANGED <<iteration, problem, live, cmd_i, last_result, skip_all, dry_run,
                   confirmed, exec_call, discoveries, elapsed, cli_max_iterations, returned>>

InitPrompt ==
    /\ nodes = <<>>
    /\ execution_order = <<>>
    /\ pc = "load"
    /\ iteration = 0
    /\ problem = NullProblem
    /\ live = FALSE
    /\ cmd_i = 0
    /\ last_result = NoResult
    /\ skip_all = FALSE
    /\ dry_run = FALSE
    /\ confirmed = NoConfirm
    /\ exec_call = NoCall
    /\ llm_reply = NoReply
    /\ discoveries = 0
    /\ elapsed = FALSE
    /\ log_appended = <<>>
    /\ prompt = NoPrompt
    /\ cli_max_iterations = DefaultCliMaxIterations
    /\ returned = NoReturn

NextPrompt ==
    \/ \E diagnostics \in DiagnosticsInputs, reply \in DiagnoseReplies :
           LoadFromDiagnostics(diagnostics, reply)
    \/ LoopHead
    \/ \E ans \in ConfirmAnswers : Confirm(ans)
    \/ \E os \in OsAnswers, out \in SensitiveOutputs : Execute(os, out)
    \/ \E reply \in Replies(VerdictInputsCap, {}, {}, MaxNew, MaxNew) \cup {NoReply} :
           AfterFor(reply)

SpecPrompt == InitPrompt /\ [][NextPrompt]_vars

(***************************************************************************)
(* Specification SpecGraph: arbitrary sequences of ProblemGraph.add        *)
(***************************************************************************)
GraphIds == {"p1", "p2"}
MissingId == "px"

EdgeInputs ==
    { <<>>, <<"p1">>, <<"p2">>, <<MissingId>>, <<"p1", "p1">>, <<"p1", "p2">> }

GraphSeverities == {"critical", "info"}

GraphProblemInputs ==
    { [Problem(id, sev, <<>>, cb) EXCEPT !.may_cause = mc] :
        id \in GraphIds, sev \in GraphSeverities,
        cb \in EdgeInputs, mc \in EdgeInputs }

InitGraph ==
    /\ nodes = <<>>
    /\ execution_order = <<>>
    /\ pc = "graph"
    /\ iteration = 0
    /\ problem = NullProblem
    /\ live = FALSE
    /\ cmd_i = 0
    /\ last_result = NoResult
    /\ skip_all = FALSE
    /\ dry_run = FALSE
    /\ confirmed = NoConfirm
    /\ exec_call = NoCall
    /\ llm_reply = NoReply
    /\ discoveries = 0
    /\ elapsed = FALSE
    /\ log_appended = <<>>
    /\ prompt = NoPrompt
    /\ cli_max_iterations = DefaultCliMaxIterations
    /\ returned = NoReturn

GraphAdd(p) ==
    /\ pc = "graph"
    /\ nodes' = add(nodes, p)
    /\ execution_order' = _recalculate_order(nodes')
    /\ UNCHANGED <<pc, iteration, problem, live, cmd_i, last_result, skip_all,
                   dry_run, confirmed, exec_call, llm_reply, discoveries, elapsed,
                   log_appended, prompt, cli_max_iterations, returned>>

\* graph.render_tree() on the graph as it stands; the call leaves the graph
\* alone, so what follows it is what follows the state it was made in
RenderTreeCall ==
    /\ pc = "graph"
    /\ pc' = "rendered"
    /\ returned' = [op |-> "render_tree", outcome |-> "returned", value |-> render_tree(nodes)]
    /\ UNCHANGED <<nodes, execution_order, iteration, problem, live, cmd_i,
                   last_result, skip_all, dry_run, confirmed, exec_call, llm_reply,
                   discoveries, elapsed, log_appended, prompt, cli_max_iterations>>

NextGraph ==
    \/ \E p \in GraphProblemInputs : GraphAdd(p)
    \/ RenderTreeCall

SpecGraph == InitGraph /\ [][NextGraph]_vars

(***************************************************************************)
(* Specification SpecExec: single calls of CommandExecutor.execute_sync    *)
(* and CommandExecutor.execute, with every argument combination.           *)
(***************************************************************************)
InitExec ==
    /\ nodes = <<>>
    /\ execution_order = <<>>
    /\ pc = "exec"
    /\ iteration = 0
    /\ problem = NullProblem
    /\ live = FALSE
    /\ cmd_i = 0
    /\ last_result = NoResult
    /\ skip_all = FALSE
    /\ dry_run \in BOOLEAN
    /\ confirmed = NoConfirm
    /\ exec_call = NoCall
    /\ llm_reply = NoReply
    /\ discoveries = 0
    /\ elapsed = FALSE
    /\ log_appended = <<>>
    /\ prompt = NoPrompt
    /\ cli_max_iterations = DefaultCliMaxIterations
    /\ returned = NoReturn

ExecuteSyncCall(cmd, sudo, idem, os) ==
    /\ pc = "exec"
    /\ LET r == ExecuteSyncTable[cmd][dry_run][sudo][idem][os]
       IN  exec_call' = [iter |-> 0, id |-> "none", i |-> 0, command |-> cmd,
                         mode |-> "sync", dry_run |-> dry_run, sudo |-> sudo,
                         idem |-> idem, os |-> os, outcome |-> r.outcome, result |-> r.result,
                         steps |-> r.steps]
    /\ returned' = NoReturn
    /\ UNCHANGED <<nodes, execution_order, pc, iteration, problem, live, cmd_i,
                   last_result, skip_all, dry_run, confirmed, llm_reply, discoveries,
                   elapsed, log_appended, prompt, cli_max_iterations>>

ExecuteCall(cmd, sudo, os) ==
    /\ pc = "exec"
    /\ LET r == ExecuteTable[cmd][dry_run][sudo][os]
       IN  exec_call' = [iter |-> 0, id |-> "none", i |-> 0, command |-> cmd,
                         mode |-> "async", dry_run |-> dry_run, sudo |-> sudo,
                         idem |-> FALSE, os |-> os, outcome |-> r.outcome, result |-> r.result,
                         steps |-> r.steps]
    /\ returned' = NoReturn
    /\ UNCHANGED <<nodes, execution_order, pc, iteration, problem, live, cmd_i,
                   last_result, skip_all, dry_run, confirmed, llm_reply, discoveries,
                   elapsed, log_appended, prompt, cli_max_iterations>>

\* how many times in a row add_sudo is applied to its own output
MaxApplications == 3

\* add_sudo(command) on a command text; texts keeps what the calls returned
AddSudoCall(cmd) ==
    /\ pc = "exec"
    /\ returned' = [op |-> "add_sudo", outcome |-> "returned",
                    value |-> [command |-> cmd, texts |-> <<add_sudo(CmdText[cmd])>>]]
    /\ exec_call' = NoCall
    /\ UNCHANGED <<nodes, execution_order, pc, iteration, problem, live, cmd_i,
                   last_result, skip_all, dry_run, confirmed, llm_reply, discoveries,
                   elapsed, log_appended, prompt, cli_max_iterations>>

\* add_sudo on the text the previous call of add_sudo returned
AddSudoAgain ==
    /\ pc = "exec"
    /\ returned.op = "add_sudo"
    /\ Len(returned.value.texts) < MaxApplications
    /\ LET texts == returned.value.texts
       IN  returned' = [returned EXCEPT
                          !.value.texts = Append(texts, add_sudo(texts[Len(texts)]))]
    /\ UNCHANGED <<nodes, execution_order, pc, iteration, problem, live, cmd_i,
                   last_result, skip_all, dry_run, confirmed, exec_call, llm_reply,
                   discoveries, elapsed, log_appended, prompt, cli_max_iterations>>

NextExec ==
    \/ \E cmd \in DOMAIN CmdText, sudo \in BOOLEAN, idem \in BOOLEAN, os \in OsAnswers :
           ExecuteSyncCall(cmd, sudo, idem, os)
    \/ \E cmd \in DOMAIN CmdText, sudo \in BOOLEAN, os \in OsAnswers :
           ExecuteCall(cmd, sudo, os)
    \/ \E cmd \in DOMAIN CmdText : AddSudoCall(cmd)
    \/ AddSudoAgain

SpecExec == InitExec /\ [][NextExec]_vars

(***************************************************************************)
(* Properties                                                              *)
(***************************************************************************)
\* the ids in caused_by of node id that are nodes of ns
CausesInGraph(ns, id) == Range(get(ns, id).caused_by) \cap NodeIds(ns)

CausesResolved(ns, id) ==
    \A d \in CausesInGraph(ns, id) : get(ns, d).status = "resolved"

BecomesInProgress(id) ==
    /\ id \in NodeIds(nodes')
    /\ get(nodes', id).status = "in_progress"
    /\ ~(id \in NodeIds(nodes) /\ get(nodes, id).status = "in_progress")

ExecutorCalled == exec_call' # exec_call /\ exec_call' # NoCall

\* C1: a problem is marked in_progress, and a command of it is handed to the
\* executor, only when every id of its caused_by that is a node of the graph
\* has status resolved at that moment.
C1_SelectedOnlyWithResolvedCauses ==
    [][ /\ \A id \in NodeIds(nodes') :
              BecomesInProgress(id) => id \in NodeIds(nodes) /\ CausesResolved(nodes, id)
        /\ ExecutorCalled =>
              problem.id \in NodeIds(nodes) /\ CausesResolved(nodes, problem.id)
      ]_vars

\* a problem with a cause in the graph is in progress and a command of it ran
C1_Witness ==
    /\ pc = "after_for"
    /\ problem.status = "in_progress"
    /\ CausesInGraph(nodes, problem.id) # {}
    /\ exec_call.id = problem.id
    /\ exec_call.outcome = "returned"

\* C2: after any sequence of add operations execution_order contains every
\* node id of the graph exactly once and nothing else.
C2_OrderIsPermutation ==
    /\ Range(execution_order) = NodeIds(nodes)
    /\ Len(execution_order) = Len(nodes)
    /\ NoDuplicates(execution_order)

\* a cycle p1 <-> p2 with a duplicate entry, an edge to a missing id and a
\* may_cause that mirrors no caused_by
C2_Witness ==
    /\ Len(nodes) = 2
    /\ get(nodes, "p1").caused_by = <<"p2">>
    /\ get(nodes, "p2").caused_by = <<"p1", "p1">>
    /\ get(nodes, "p1").may_cause = <<MissingId>>
    /\ get(nodes, "p2").may_cause = <<"p1", "p2">>
    /\ Len(execution_order) = 2

\* C3: every problem of the graph has attempts <= max_attempts, and a problem
\* whose attempts has reached max_attempts is never selected and incremented.
C3_AttemptsBounded ==
    /\ \A i \in 1..Len(nodes) : nodes[i].attempts <= nodes[i].max_attempts
    /\ problem.attempts <= problem.max_attempts

\* a problem has used all its attempts and failed
C3_Witness ==
    \E i \in 1..Len(nodes) :
        nodes[i].attempts = nodes[i].max_attempts /\ nodes[i].status = "failed"

\* C4: run_sync ends, and never makes more than max_iterations (50) loop
\* iterations, whatever the collaborator replies.
C4_TerminatesWithinCap ==
    /\ [](iteration <= max_iterations)
    /\ <>(pc \in {"done", "raised"})

\* the loop was stopped by the cap with problems left
C4_Witness ==
    pc = "done" /\ iteration = max_iterations /\ ~all_done(nodes)

Subprocesses(steps) == {i \in 1..Len(steps) : steps[i].op \in {"probe", "subprocess"}}

\* is_dangerous over the model's commands (the claim's precondition)
RECURSIVE DangerousCommands(_)
DangerousCommands(cmds) ==
    IF cmds = {} THEN {}
    ELSE LET c == CHOOSE x \in cmds : TRUE
         IN  (IF is_dangerous(CmdText[c]) THEN {c} ELSE {})
                 \cup DangerousCommands(cmds \ {c})

Dangerous == DangerousCommands(DOMAIN CmdText)

\* C5: for a command matching the dangerous-pattern table, execute_sync and
\* execute raise DangerousCommandError before elevation, before the probe and
\* before any subprocess, for every dry_run, add_sudo and check_idempotent.
C5_DangerCheckedFirst ==
    (exec_call # NoCall /\ exec_call.command \in Dangerous) =>
        /\ exec_call.outcome = "DangerousCommandError"
        /\ Subprocesses(exec_call.steps) = {}
        /\ \A i \in 1..Len(exec_call.steps) : exec_call.steps[i].op = "is_dangerous"

\* a dangerous command that also matches an idempotency template was refused
\* by execute_sync with dry_run off and both options on
C5_Witness ==
    /\ exec_call.command = "mkdir -p d; rm -rf /"
    /\ exec_call.mode = "sync"
    /\ ~exec_call.dry_run /\ exec_call.sudo /\ exec_call.idem
    /\ exec_call.outcome = "DangerousCommandError"

\* C6: a command reaches the executor only after the confirmation policy was
\* asked about exactly that problem and command in the same iteration and
\* approved it.
C6_ExecutedOnlyIfApproved ==
    [][ ExecutorCalled =>
          /\ confirmed.ans = "yes"
          /\ confirmed.iter = exec_call'.iter
          /\ confirmed.id = exec_call'.id
          /\ confirmed.i = exec_call'.i
          /\ confirmed.command = exec_call'.command
      ]_vars

\* the second command of a problem was approved and executed
C6_Witness ==
    /\ exec_call.i = 2
    /\ exec_call.outcome = "returned"
    /\ confirmed.i = 2 /\ confirmed.ans = "yes"

\* C7: when the danger check trips on a command of a problem, the problem is
\* failed at the end of that loop iteration.
C7_DangerFailsProblem ==
    (pc = "loop" /\ exec_call.outcome = "DangerousCommandError") =>
        problem.status = "failed"

\* C8: when the confirmation policy declines a command of a problem, the
\* problem is skipped at the end of that loop iteration.
C8_DeclineSkipsProblem ==
    (pc = "loop" /\ confirmed.ans = "no") => problem.status = "skipped"

\* C9: after skip-all the problem is skipped, none of its remaining commands
\* is run, the collaborator is not contacted in that iteration and the loop
\* goes on to its next iteration.
C9_SkipAllEndsIteration ==
    confirmed.ans = "skip_all" =>
        /\ pc \in {"after_for", "loop"}
        /\ problem.status = "skipped"
        /\ get(nodes, problem.id).status = "skipped"
        /\ llm_reply = NoReply
        /\ exec_call = NoCall \/ exec_call.i < confirmed.i

\* skip-all on the second command after the first command ran
C9_Witness ==
    /\ pc = "loop"
    /\ confirmed.ans = "skip_all" /\ confirmed.i = 2
    /\ exec_call.i = 1 /\ exec_call.outcome = "returned" /\ exec_call.result.executed

\* C10: a well-formed verdict sets the problem's status to resolved if it is
\* resolved, or partial with confidence >= 0.90; otherwise to failed if
\* attempts >= max_attempts, and else to pending.
C10_VerdictApplied ==
    (pc = "loop" /\ llm_reply.kind = "verdict") =>
        problem.status =
            IF llm_reply.verdict = "resolved" THEN "resolved"
            ELSE IF llm_reply.verdict = "partial" /\ llm_reply.confidence >= 90
                 THEN "resolved"
                 ELSE IF problem.attempts >= problem.max_attempts
                      THEN "failed" ELSE "pending"

\* a partial verdict with confidence exactly 0.90 resolved the problem
C10_Witness ==
    /\ pc = "loop"
    /\ llm_reply.kind = "verdict"
    /\ llm_reply.verdict = "partial" /\ llm_reply.confidence = 90
    /\ problem.status = "resolved"

\* C11: when the verdict call fails the problem becomes resolved if and only
\* if the exit code of the last recorded result is 0, whatever its executed
\* flag; otherwise failed if attempts >= max_attempts, and else pending.
C11_FallbackByExitCode ==
    (pc = "loop" /\ llm_reply.kind = "error") =>
        problem.status =
            IF last_result.returncode = 0 THEN "resolved"
            ELSE IF problem.attempts >= problem.max_attempts
                 THEN "failed" ELSE "pending"

\* C12: a failing verdict call, a transport error or a malformed reply of any
\* shape, never aborts run_sync: no exception escapes and the loop goes on.
C12_VerdictFailureNeverAborts ==
    llm_reply.shape \in ReplyShapes \ {"well_formed"} => pc = "loop"

InProgress(ns) == {i \in 1..Len(ns) : ns[i].status = "in_progress"}

\* C13: at every point of a session at most one problem of the graph is
\* in_progress.
C13_AtMostOneInProgress == Cardinality(InProgress(nodes)) <= 1

\* the status transitions the claim allows for one id
Forward(a, b) ==
    \/ a = b
    \/ a = "pending" /\ b = "in_progress"
    \/ a = "in_progress" /\ b \in {"pending", "resolved", "failed", "skipped"}

\* C14: the status of each problem id only moves forward, the one backward
\* transition being in_progress -> pending; an id that is resolved, failed or
\* skipped never gets a different status.
C14_StatusOnlyMovesForward ==
    [][ \A id \in NodeIds(nodes) \cap NodeIds(nodes') :
            Forward(get(nodes, id).status, get(nodes', id).status) ]_vars

\* add_sudo and check_idempotent left at their default, True
DefaultArguments(call) == call.sudo /\ (call.mode = "sync" => call.idem)

Contains(s, sub) == \E i \in 1..(Len(s) + 1) : StartsWithAt(s, i, sub)

\* C15: with dry_run set a call of execute_sync or execute on a command that
\* is not dangerous, with default arguments, spawns no subprocess, neither the
\* command nor the probe, and returns executed = false with a preview that
\* contains the elevated command text.
C15_DryRunSpawnsNothing ==
    ( /\ exec_call.mode # "none"
      /\ exec_call.dry_run
      /\ exec_call.command \notin Dangerous
      /\ DefaultArguments(exec_call) ) =>
        /\ exec_call.outcome = "returned"
        /\ Subprocesses(exec_call.steps) = {}
        /\ ~exec_call.result.executed
        /\ Contains(exec_call.result.preview, add_sudo(CmdText[exec_call.command]))

\* the commands of a templated shape: those IDEMPOTENT_CHECK has a probe for
RECURSIVE TemplatedCommands(_)
TemplatedCommands(cmds) ==
    IF cmds = {} THEN {}
    ELSE LET c == CHOOSE x \in cmds : TRUE
         IN  (IF check_idempotent(CmdText[c]) # NoCheck /\ ~is_dangerous(CmdText[c])
              THEN {c} ELSE {})
                 \cup TemplatedCommands(cmds \ {c})

Templated == TemplatedCommands(DOMAIN CmdText)

\* C16: for a command of a templated shape given to execute_sync with default
\* arguments and dry_run off, if the probe exits 0 the result has executed =
\* false, exit code 0 and the sentinel stdout, and the command is never run.
C16_SatisfiedProbeSkipsCommand ==
    ( /\ exec_call.mode = "sync"
      /\ exec_call.command \in Templated
      /\ DefaultArguments(exec_call)
      /\ ~exec_call.dry_run
      /\ exec_call.os.probe = "exit0" ) =>
        /\ exec_call.outcome = "returned"
        /\ ~exec_call.result.executed
        /\ exec_call.result.returncode = 0
        /\ exec_call.result.stdout = AlreadyDone
        /\ \A i \in 1..Len(exec_call.steps) : exec_call.steps[i].op # "subprocess"

\* C17: for the same command, configuration and operating system, execute_sync
\* and execute raise DangerousCommandError in the same cases, resolve to the
\* same elevated command text, and under dry_run return the same non-executed
\* preview result.
C17_SyncAndAsyncAgree ==
    exec_call.mode = "sync" =>
        LET a == ExecuteTable[exec_call.command][exec_call.dry_run][exec_call.sudo][exec_call.os]
        IN  /\ (exec_call.outcome = "DangerousCommandError")
                    <=> (a.outcome = "DangerousCommandError")
            /\ (exec_call.outcome = "returned" /\ a.outcome = "returned") =>
                    exec_call.result.command = a.result.command
            /\ exec_call.dry_run /\ a.outcome = "returned" =>
                    /\ exec_call.outcome = "returned"
                    /\ exec_call.result = a.result
                    /\ exec_call.result.preview # <<>>

\* C18: run_sync checks the session budget at the start of every loop
\* iteration; once it has elapsed no further problem is started and run_sync
\* returns the summary.
C18_DeadlineEndsSession ==
    [][ (elapsed /\ pc = "loop") =>
            /\ pc' = "done"
            /\ \A id \in NodeIds(nodes') : ~BecomesInProgress(id) ]_vars

StatusChanged ==
    \E id \in NodeIds(nodes) \cap NodeIds(nodes') :
        get(nodes, id).status # get(nodes', id).status

CollaboratorCalled == llm_reply' # llm_reply /\ llm_reply' # NoReply

\* C19: every status transition, every command execution attempt and every
\* collaborator call appends at least one entry to session_log.
C19_EveryStepLogged ==
    [][ (StatusChanged \/ ExecutorCalled \/ CollaboratorCalled) =>
            log_appended' # <<>> ]_vars

SensitiveIn(text) == \E i \in 1..Len(text) : text[i] \in SensitiveWords

\* C20: stdout, stderr and snapshot text enter a collaborator prompt only
\* after anonymize: no prompt of load_from_diagnostics or of
\* _evaluate_and_rediagnose holds the un-redacted text.
C20_PromptsAreAnonymized ==
    /\ prompt.kind = "evaluate" =>
          /\ prompt.stdout = Truncate(anonymize(last_result.stdout), StdoutLimit)
          /\ prompt.stderr = Truncate(anonymize(last_result.stderr), StderrLimit)
          /\ ~SensitiveIn(prompt.stdout)
          /\ ~SensitiveIn(prompt.stderr)
    /\ prompt.kind = "diagnose" =>
          /\ ~SensitiveIn(prompt.os_info)
          /\ ~SensitiveIn(prompt.diagnostic_data)

\* a command wrote a host name to stdout and a user name to stderr, and the
\* prompt of its evaluation holds the replacements
C20_Witness ==
    /\ prompt.kind = "evaluate"
    /\ SensitiveIn(last_result.stdout)
    /\ SensitiveIn(last_result.stderr)
    /\ prompt.stdout = <<"[HOSTNAME]", "ok">>
    /\ prompt.stderr = <<"[USER]", "[HOSTNAME]">>

\* the entries of the reply's new_problems that run_sync hands to graph.add
\* in this step
AddedProblems ==
    IF CollaboratorCalled /\ llm_reply'.kind = "verdict"
    THEN Range(llm_reply'.new_problems) ELSE {}

\* C21: adding a problem whose id is already in the graph is a conflict, not a
\* silent overwrite: the node stored under that id keeps its status and its
\* attempts (here for the ids other than the current problem's, whose status
\* the verdict of the same step sets).
C21_ReAddKeepsStoredNode ==
    [][ \A pd \in AddedProblems :
            (pd.id \in NodeIds(nodes) /\ pd.id # problem.id) =>
                /\ get(nodes', pd.id).status = get(nodes, pd.id).status
                /\ get(nodes', pd.id).attempts = get(nodes, pd.id).attempts ]_vars

\* C22: a timed-out command counts as a failed attempt: at the end of that
\* iteration the problem is not resolved; it is pending while attempts <
\* max_attempts and failed otherwise.
C22_TimeoutIsFailedAttempt ==
    (pc = "loop" /\ exec_call.outcome = "CommandTimeoutError") =>
        problem.status =
            IF problem.attempts < problem.max_attempts THEN "pending" ELSE "failed"

\* the executor call failed: a non-zero exit, a process that could not be
\* spawned, a timeout, or a block by the danger check
CallFailed(call) ==
    \/ call.outcome \in {"CommandTimeoutError", "DangerousCommandError"}
    \/ /\ call.outcome = "returned"
       /\ call.result.returncode # 0 \/ call.result.error # "None"

\* C23: within one loop iteration, once a command of the problem has failed
\* (non-zero exit, spawn failure, timeout or danger block) no later command of
\* the problem is passed to the executor.
C23_NoCommandAfterFailure ==
    [][ (ExecutorCalled /\ exec_call # NoCall) => ~CallFailed(exec_call) ]_vars

(***************************************************************************)
(* Specification SpecSelect: ProblemGraph.next_actionable on graphs of     *)
(* problems built with every status, attempts count and caused_by list,    *)
(* and again after a problem was marked resolved.                          *)
(***************************************************************************)
SelectStatuses == {"pending", "resolved", "failed", "skipped"}

SelectAttempts == {0, DefaultMaxAttempts}

SelectProblems(id, other) ==
    { [Problem(id, sev, <<>>, cb) EXCEPT !.status = st, !.attempts = at] :
        sev \in GraphSeverities, st \in SelectStatuses, at \in SelectAttempts,
        cb \in { <<>>, <<other>>, <<MissingId>>, <<MissingId, other>> } }

InitSelect ==
    /\ \E a \in SelectProblems("p1", "p2"), b \in SelectProblems("p2", "p1") :
           nodes = add(add(<<>>, a), b)
    /\ execution_order = _recalculate_order(nodes)
    /\ pc = "select"
    /\ iteration = 0
    /\ problem = NullProblem
    /\ live = FALSE
    /\ cmd_i = 0
    /\ last_result = NoResult
    /\ skip_all = FALSE
    /\ dry_run = FALSE
    /\ confirmed = NoConfirm
    /\ exec_call = NoCall
    /\ llm_reply = NoReply
    /\ discoveries = 0
    /\ elapsed = FALSE
    /\ log_appended = <<>>
    /\ prompt = NoPrompt
    /\ cli_max_iterations = DefaultCliMaxIterations
    /\ returned = NoReturn

\* graph.next_actionable(): the node returned, NullProblem standing for None
NextActionableCall ==
    /\ pc = "select"
    /\ LET pid == next_actionable(nodes, execution_order)
       IN  problem' = IF pid = NoProblem THEN NullProblem ELSE get(nodes, pid)
    /\ pc' = "selected"
    /\ UNCHANGED <<nodes, execution_order, iteration, live, cmd_i, last_result,
                   skip_all, dry_run, confirmed, exec_call, llm_reply, discoveries,
                   elapsed, log_appended, prompt, cli_max_iterations, returned>>

\* p.status = "resolved" on a node of the graph, as the caller of the graph does
MarkResolved(id) ==
    /\ pc = "selected"
    /\ id \in NodeIds(nodes)
    /\ get(nodes, id).status # "resolved"
    /\ nodes' = DictSet(nodes, [get(nodes, id) EXCEPT !.status = "resolved"])
    /\ problem' = NullProblem
    /\ pc' = "select"
    /\ UNCHANGED <<execution_order, iteration, live, cmd_i, last_result,
                   skip_all, dry_run, confirmed, exec_call, llm_reply, discoveries,
                   elapsed, log_appended, prompt, cli_max_iterations, returned>>

NextSelect ==
    \/ NextActionableCall
    \/ \E id \in GraphIds : MarkResolved(id)

SpecSelect == InitSelect /\ [][NextSelect]_vars

\* the positions of execution_order whose node is pending, has attempts left
\* and has every caused_by id that is a node of the graph resolved
EligiblePositions ==
    {i \in 1..Len(execution_order) :
        LET n == get(nodes, execution_order[i])
        IN  /\ n.status = "pending"
            /\ n.attempts < n.max_attempts
            /\ \A d \in Range(n.caused_by) :
                   d \in NodeIds(nodes) => get(nodes, d).status = "resolved"}

\* C24: next_actionable returns the first node of execution_order that is
\* pending, has attempts < max_attempts and has all its in-graph caused_by
\* nodes resolved (ids missing from the graph are ignored), and returns none
\* exactly when no node is so.
C24_NextActionableIsFirstEligible ==
    pc = "selected" =>
        IF EligiblePositions = {} THEN problem = NullProblem
        ELSE \E i \in EligiblePositions :
                /\ \A j \in EligiblePositions : i <= j
                /\ problem = get(nodes, execution_order[i])

\* p2, caused by an id missing from the graph and by p1, is returned while p1
\* is resolved
C24_Witness ==
    /\ pc = "selected"
    /\ problem.id = "p2"
    /\ problem.caused_by = <<MissingId, "p1">>
    /\ get(nodes, "p1").status = "resolved"
    /\ get(nodes, "p1").attempts = 0
    /\ get(nodes, "p1").caused_by = <<>>

\* C25: after a verdict that reports new problems, every reported problem is
\* a node of the graph whose caused_by contains the current problem's id, and
\* the may_cause of the current problem's node in the graph contains the new
\* problem's id.
C25_NewProblemsAreWired ==
    [][ \A pd \in AddedProblems :
            /\ pd.id \in NodeIds(nodes')
            /\ problem.id \in Range(get(nodes', pd.id).caused_by)
            /\ pd.id \in Range(get(nodes', problem.id).may_cause) ]_vars

\* C26: when run_sync returns while graph.all_done() is false, the iteration
\* cap (or the session deadline) was reached: the loop stops early for no
\* other reason.
C26_EarlyStopOnlyByCap ==
    (pc = "done" /\ ~all_done(nodes)) => (iteration >= max_iterations \/ elapsed)

\* the executor call let the command run, or skipped it on a satisfied probe
RanOrSkipped(call) ==
    /\ call.outcome = "returned"
    /\ call.result.executed \/ call.result.stdout = AlreadyDone

\* C27: the collaborator is asked for a verdict only if a command of the
\* problem ran or was idempotency-skipped in that iteration; a dry-run
\* preview, a spawn failure or a timeout alone does not count (here for the
\* iterations whose only executor call is that of the first command).
C27_VerdictOnlyAfterRun ==
    [][ (CollaboratorCalled /\ exec_call.i = 1) => RanOrSkipped(exec_call) ]_vars

PositionIn(s, x) == CHOOSE i \in 1..Len(s) : s[i] = x

IsRoot(ns, id) == get(ns, id).caused_by = <<>>

SeverityOrder == <<"critical", "warning", "info">>

\* C28: after every add, execution_order lists all nodes with an empty
\* caused_by before all nodes with a non-empty caused_by; within each group
\* the severity is non-decreasing (critical, warning, info), and nodes of one
\* group and severity keep the relative order of the topological pass.
C28_RootsThenSeverityStable ==
    \A i, j \in 1..Len(execution_order) :
        i < j =>
            LET a == execution_order[i]
                b == execution_order[j]
                t == TopologicalPass(nodes)
            IN  /\ IsRoot(nodes, b) => IsRoot(nodes, a)
                /\ (IsRoot(nodes, a) <=> IsRoot(nodes, b)) =>
                      /\ PositionIn(SeverityOrder, get(nodes, a).severity)
                            <= PositionIn(SeverityOrder, get(nodes, b).severity)
                      /\ get(nodes, a).severity = get(nodes, b).severity =>
                            PositionIn(t, a) < PositionIn(t, b)

\* p1 was added before p2, both have causes and the same severity, and the
\* topological pass put p2 first: the sort kept p2 before p1
C28_Witness ==
    /\ Len(nodes) = 2
    /\ nodes[1].id = "p1"
    /\ get(nodes, "p1").caused_by = <<"p2">>
    /\ get(nodes, "p2").caused_by = <<MissingId>>
    /\ get(nodes, "p1").severity = get(nodes, "p2").severity
    /\ execution_order = <<"p2", "p1">>

(***************************************************************************)
(* Specification SpecCli: the session the command orchestrate starts with  *)
(* a value of --max-iterations; it calls run_sync() without arguments.     *)
(***************************************************************************)
CliMaxIterationsInputs == {1, DefaultCliMaxIterations}

InitCli ==
    /\ nodes = load_from_dict(<<>>, <<ProblemDict("p1", "warning", <<"echo hi">>, <<>>)>>)
    /\ execution_order = _recalculate_order(nodes)
    /\ pc = "loop"
    /\ iteration = 0
    /\ problem = NullProblem
    /\ live = FALSE
    /\ cmd_i = 0
    /\ last_result = NoResult
    /\ skip_all = FALSE
    /\ dry_run \in BOOLEAN
    /\ confirmed = NoConfirm
    /\ exec_call = NoCall
    /\ llm_reply = NoReply
    /\ discoveries = 0
    /\ elapsed = FALSE
    /\ log_appended = <<>>
    /\ prompt = NoPrompt
    /\ cli_max_iterations \in CliMaxIterationsInputs
    /\ returned = NoReturn

SpecCli == InitCli /\ [][NextCap]_vars

\* C29: the value N of --max-iterations bounds the repair loop: run_sync
\* makes at most N loop iterations in that session.
C29_CliCapBoundsLoop == iteration <= cli_max_iterations

\* the call went as far as spawning the command itself
CommandSpawned(call) ==
    \E i \in 1..Len(call.steps) : call.steps[i].op = "subprocess"

\* the operating system's answers in which the deadline of the command expires
DeadlineAnswers == {"timeout", "timeout_exited"}

\* C30: with dry_run off, execute_sync and execute report a deadline expiry
\* only by raising CommandTimeoutError, never as a result, and report a
\* failure to start the process only by returning a result with executed =
\* false and the error text, never by raising.
C30_TimeoutRaisesSpawnFailureReturns ==
    (exec_call.mode # "none" /\ ~exec_call.dry_run /\ CommandSpawned(exec_call)) =>
        /\ exec_call.os.run \in DeadlineAnswers
              <=> exec_call.outcome = "CommandTimeoutError"
        /\ exec_call.os.run = "spawn_error" =>
              /\ exec_call.outcome = "returned"
              /\ ~exec_call.result.executed
              /\ exec_call.result.error \notin {"None", ""}

\* the command, cut of the blanks around it, starts with an entry of the
\* elevation table
HasTablePrefix(text) == \E p \in NEEDS_SUDO_PREFIXES : startswith(strip(text), p)

\* C31: elevation is idempotent, add_sudo(add_sudo(c)) = add_sudo(c): a
\* command that starts with a prefix of the elevation table gets "sudo " put
\* in front exactly once, an already elevated command and a command with no
\* table prefix are returned unchanged.
C31_AddSudoIdempotent ==
    returned.op = "add_sudo" =>
        LET c   == CmdText[returned.value.command]
            out == returned.value.texts[1]
        IN  /\ HasTablePrefix(c) =>
                  /\ out = <<"s", "u", "d", "o", " ">> \o strip(c)
                  /\ ~HasTablePrefix(out)
            /\ ~HasTablePrefix(c) => out = c
            /\ \A k \in 2..Len(returned.value.texts) : returned.value.texts[k] = out

\* the command with blanks around a table prefix, elevated twice
C31_Witness ==
    /\ returned.op = "add_sudo"
    /\ returned.value.command = " dnf install x "
    /\ returned.value.texts = <<CmdText["sudo dnf install x"], CmdText["sudo dnf install x"]>>

\* the nodes a walk from the roots along may_cause can reach
RECURSIVE ReachedFrom(_, _)
ReachedFrom(ns, ids) ==
    LET more == { c \in NodeIds(ns) :
                    \E id \in ids : c \in Range(get(ns, id).may_cause) }
    IN  IF more \subseteq ids THEN ids ELSE ReachedFrom(ns, ids \cup more)

Reached(ns) ==
    ReachedFrom(ns, { id \in NodeIds(ns) : get(ns, id).caused_by = <<>> })

\* the lines of render_tree name every node once: the reached ones in the
\* tree, the others after them as orphaned
OneLinePerNode(ns, out) ==
    /\ Len(out) = Len(ns)
    /\ \A id \in NodeIds(ns) : Cardinality({ k \in 1..Len(out) : out[k].id = id }) = 1
    /\ \A k \in 1..Len(out) : out[k].orphaned <=> out[k].id \notin Reached(ns)
    /\ \A k, l \in 1..Len(out) : (k < l /\ out[k].orphaned) => out[l].orphaned

C33_NoneInProgressAtReturn ==
    pc = "done" => \A i \in 1..Len(nodes) : nodes[i].status # "in_progress"

RECURSIVE SumMaxAttempts(_)
SumMaxAttempts(ns) ==
    IF ns = <<>> THEN 0 ELSE Head(ns).max_attempts + SumMaxAttempts(Tail(ns))

\* the nodes whose attempts differ before and after the step
AttemptsRaised ==
    { i \in 1..Len(nodes) : nodes'[i].attempts # nodes[i].attempts }

\* the step raises attempts of exactly one problem by exactly 1
RaisesOneAttempt ==
    /\ Cardinality(AttemptsRaised) = 1
    /\ \A i \in AttemptsRaised : nodes'[i].attempts = nodes[i].attempts + 1

\* C34 as stated: if the collaborator never reports new problems, every loop
\* iteration of run_sync raises attempts of exactly one problem by exactly 1
\* and leaves the attempts of all other problems alone, so the number of
\* iterations is at most the sum of max_attempts over the nodes (and at most
\* 50).
C34_EveryIterationRaisesOneAttempt ==
    [][ discoveries' = 0 =>
          /\ Len(nodes') = Len(nodes)
          /\ IF iteration' # iteration
             THEN iteration' = iteration + 1 /\ RaisesOneAttempt
             ELSE AttemptsRaised = {}
          /\ iteration' <= SumMaxAttempts(nodes')
          /\ iteration' <= max_iterations ]_vars

\* C34 (amended): every iteration that selects a problem raises the attempts
\* of that problem alone by 1; an iteration that finds nothing actionable
\* raises no attempts and ends the loop. The number of iterations is at most
\* the sum of max_attempts plus one (and at most 50).
C34_SelectingIterationRaisesOneAttempt ==
    [][ discoveries' = 0 =>
          /\ Len(nodes') = Len(nodes)
          /\ IF iteration' # iteration
             THEN /\ iteration' = iteration + 1
                  /\ \/ RaisesOneAttempt /\ problem'.id = nodes[CHOOSE i \in AttemptsRaised : TRUE].id
                     \/ AttemptsRaised = {} /\ pc' = "done"
             ELSE AttemptsRaised = {}
          /\ iteration' <= SumMaxAttempts(nodes') + 1
          /\ iteration' <= max_iterations ]_vars

\* the fourth iteration of a session on one problem: three attempts, the last
\* one declined, and nothing actionable left
C34_Witness ==
    /\ discoveries = 0
    /\ pc = "done"
    /\ Len(nodes) = 1
    /\ nodes[1].attempts = 3
    /\ nodes[1].status = "skipped"
    /\ iteration = 4

(***************************************************************************)
(* Specification SpecFresh: a run_sync session in which every problem the  *)
(* collaborator reports has an id the graph does not hold yet, so that no  *)
(* node is replaced. load_from_dict may name in related_to an id that is   *)
(* reported only later.                                                    *)
(***************************************************************************)
SeedListsFresh ==
    SeedLists \cup { <<ProblemDict("p1", "warning", c1, <<"p2">>)>> : c1 \in NewFixLists }

\* the ids of the reported problems are new to the graph and differ
FreshIds(new_problems) ==
    /\ \A k \in 1..Len(new_problems) : new_problems[k].id \notin NodeIds(nodes)
    /\ \A k, l \in 1..Len(new_problems) : new_problems[k].id = new_problems[l].id => k = l

InitFresh ==
    /\ \E seed \in SeedListsFresh : nodes = load_from_dict(<<>>, seed)
    /\ execution_order = _recalculate_order(nodes)
    /\ pc = "loop"
    /\ iteration = 0
    /\ problem = NullProblem
    /\ live = FALSE
    /\ cmd_i = 0
    /\ last_result = NoResult
    /\ skip_all = FALSE
    /\ dry_run \in BOOLEAN
    /\ confirmed = NoConfirm
    /\ exec_call = NoCall
    /\ llm_reply = NoReply
    /\ discoveries = 0
    /\ elapsed = FALSE
    /\ log_appended = <<>>
    /\ prompt = NoPrompt
    /\ cli_max_iterations = DefaultCliMaxIterations
    /\ returned = NoReturn

NextFresh ==
    \/ LoopHead
    \/ \E ans \in ConfirmAnswers : Confirm(ans)
    \/ \E os \in OsAnswers : Execute(os, PlainOutput)
    \/ \E reply \in { r \in Replies(VerdictInputs, NewFixLists, {<<>>, <<problem.id>>},
                                    MaxNew, MaxDiscoveries - discoveries) :
                        FreshIds(r.new_problems) } \cup {NoReply} :
           AfterFor(reply)

SpecFresh == InitFresh /\ [][NextFresh]_vars

\* node i lists in caused_by a problem that ended an iteration failed or
\* skipped (the status of the problem of the running iteration is not final)
BlockedByFailed(i) ==
    \E k \in 1..Len(nodes[i].caused_by) :
        LET d == nodes[i].caused_by[k]
        IN  /\ d \in NodeIds(nodes)
            /\ get(nodes, d).status \in {"failed", "skipped"}
            /\ (d # problem.id \/ pc \in {"loop", "done"})

\* the step neither marks node i in_progress nor runs one of its commands
LeftAlone(i) ==
    /\ nodes[i].status # "in_progress" => nodes'[i].status # "in_progress"
    /\ (exec_call' # exec_call /\ exec_call' # NoCall) => exec_call'.id # nodes[i].id

\* C35 as stated: provided no node is replaced by re-adding its id, once a
\* problem is failed or skipped at the end of a loop iteration every problem
\* that lists it in caused_by is never marked in_progress afterwards, none of
\* its commands is run, and it is still pending when run_sync returns.
C35_DependentsStayPending ==
    [][ \A i \in 1..Len(nodes) :
          BlockedByFailed(i) =>
              /\ LeftAlone(i)
              /\ pc' = "done" => nodes'[i].status = "pending" ]_vars

\* C35 (amended): the same for every such problem that is pending at that
\* point; a problem that was selected while the id it lists was not in the
\* graph yet keeps the status it has.
C35_PendingDependentsStayPending ==
    [][ \A i \in 1..Len(nodes) :
          (BlockedByFailed(i) /\ nodes[i].status = "pending") =>
              /\ LeftAlone(i)
              /\ nodes'[i].status = "pending"
              /\ nodes'[i].attempts = nodes[i].attempts ]_vars

\* p1 ended skipped or failed and p2, caused by p1, is pending at the return
\* without any attempt
C35_Witness ==
    /\ pc = "done"
    /\ Len(nodes) = 2
    /\ nodes[1].status \in {"failed", "skipped"}
    /\ nodes[2].caused_by = <<"p1">>
    /\ nodes[2].status = "pending"
    /\ nodes[2].attempts = 0
    /\ iteration > 1

\* the nodes of the graph that id depends on, directly or through others
RECURSIVE CausesFrom(_, _)
CausesFrom(ns, ids) ==
    LET more == { c \in NodeIds(ns) :
                    \E id \in ids : c \in Range(get(ns, id).caused_by) }
    IN  IF more \subseteq ids THEN ids ELSE CausesFrom(ns, ids \cup more)

AllCauses(ns, id) == CausesFrom(ns, Range(get(ns, id).caused_by) \cap NodeIds(ns))

Acyclic(ns) == \A id \in NodeIds(ns) : id \notin AllCauses(ns, id)

\* C36: for every acyclic graph execution_order is a topological order of the
\* dependency edges: each node comes after every node of the graph that its
\* caused_by lists.
C36_OrderIsTopological ==
    Acyclic(nodes) =>
        \A id \in NodeIds(nodes) :
            \A c \in Range(get(nodes, id).caused_by) \cap NodeIds(nodes) :
                PositionIn(execution_order, c) < PositionIn(execution_order, id)

\* the position after the one of the latest call of the iteration
Following(call) == IF call.id = "none" THEN 1 ELSE call.i + 1

\* C37: a problem that is selected again has its fix_commands processed again
\* from the first command, in list order, whatever succeeded in the attempt
\* before; within one attempt the confirmations and the executor calls go
\* through the positions 1, 2, ... in order, each position at most once, and
\* a command reaches the executor only after its own confirmation.
C37_EachAttemptFromFirstCommand ==
    [][ /\ (confirmed' # confirmed /\ confirmed' # NoConfirm) =>
              /\ confirmed'.id = problem.id
              /\ confirmed'.i = Following(confirmed)
              /\ confirmed'.command = problem.fix_commands[confirmed'.i]
        /\ (exec_call' # exec_call /\ exec_call' # NoCall) =>
              /\ exec_call'.id = problem.id
              /\ exec_call'.i = Following(exec_call)
              /\ exec_call'.i = confirmed.i
              /\ exec_call'.command = problem.fix_commands[exec_call'.i] ]_vars

\* the second attempt of a problem has run its first command again and is at
\* its second command
C37_Witness ==
    /\ problem.attempts = 2
    /\ problem.fix_commands = <<"mkdir -p d", "echo hi">>
    /\ exec_call.i = 2
    /\ exec_call.command = "echo hi"
    /\ exec_call.outcome = "returned"

(***************************************************************************)
(* LLMClient.chat (providers/llm.py) and specification SpecChat: one call  *)
(* of chat with every sequence of answers of the API.                      *)
(***************************************************************************)
ModOpenai   == <<"o", "p", "e", "n", "a", "i">>
ModBuiltins == <<"b", "u", "i", "l", "t", "i", "n", "s">>
ModOther    == <<"l", "i", "t", "e", "l", "l", "m">>

\* what one call of self._client.chat.completions.create can give: a response
\* with a text, with content None, with an empty list of choices, or an
\* exception of a type (name and module)
ApiResponses == {"content", "no_content", "no_choices"}

ApiExceptions ==
    { [type |-> t, module |-> ModOpenai] :
        t \in {"AuthenticationError", "RateLimitError", "NotFoundError",
               "APIConnectionError", "APITimeoutError", "BadRequestError"} }
    \cup { [type |-> "RateLimitError", module |-> ModOther],
           [type |-> "ValueError", module |-> ModBuiltins] }

ApiAnswers ==
    { [kind |-> r, type |-> "none", module |-> <<>>] : r \in ApiResponses }
    \cup { [kind |-> "exception", type |-> e.type, module |-> e.module] : e \in ApiExceptions }

\* the names the except clause of chat lists
HandledNames ==
    {"AuthenticationError", "RateLimitError", "NotFoundError", "APIConnectionError",
     "APITimeoutError"}

\* mutant: an authentication error is retried like a connection error
ChatExcept_retry_auth(e, attempt) ==
    IF e.type \in {"AuthenticationError", "APIConnectionError", "APITimeoutError"}
    THEN IF attempt = 2 THEN [do |-> "raise", exc |-> "LLMError", wait |-> 0]
         ELSE [do |-> "continue", exc |-> "none", wait |-> 5]
    ELSE [do |-> "raise", exc |-> "LLMError", wait |-> 0]

\* chat lines 72-102: the except clause for an exception e of the try block
\* in pass attempt of the loop: raise LLMError, or wait and continue
ChatExcept(e, attempt) ==
    IF startswith(e.module, ModOpenai) \/ e.type \in HandledNames
    THEN CASE e.type = "AuthenticationError" ->
                [do |-> "raise", exc |-> "LLMError", wait |-> 0]
           [] e.type = "RateLimitError" ->
                IF attempt = 2
                THEN [do |-> "raise", exc |-> "LLMError", wait |-> 10 * (attempt + 1)]
                ELSE [do |-> "continue", exc |-> "none", wait |-> 10 * (attempt + 1)]
           [] e.type = "NotFoundError" ->
                [do |-> "raise", exc |-> "LLMError", wait |-> 0]
           [] e.type \in {"APIConnectionError", "APITimeoutError"} ->
                IF attempt = 2
                THEN [do |-> "raise", exc |-> "LLMError", wait |-> 0]
                ELSE [do |-> "continue", exc |-> "none", wait |-> 5]
           [] OTHER -> [do |-> "raise", exc |-> "LLMError", wait |-> 0]
    ELSE [do |-> "raise", exc |-> "LLMError", wait |-> 0]

\* chat lines 58-70: the try block on an answer of create: the text returned,
\* or the exception that reaches the except clause
ChatTry(answer) ==
    CASE answer.kind = "content"    -> [do |-> "return", text |-> <<"text">>]
      [] answer.kind = "no_content" -> [do |-> "return", text |-> <<>>]
      [] answer.kind = "no_choices" ->
            [do |-> "except", e |-> [type |-> "IndexError", module |-> ModBuiltins]]
      [] OTHER -> [do |-> "except", e |-> [type |-> answer.type, module |-> answer.module]]

\* range(3): the passes of the loop of chat
ChatAttempts == 3

\* a call of chat that has made no request yet
ChatCalled ==
    [op |-> "chat", outcome |-> "running",
     value |-> [attempt |-> 0, requests |-> <<>>, text |-> <<>>, slept |-> 0]]

InitChat ==
    /\ nodes = <<>>
    /\ execution_order = <<>>
    /\ pc = "chat"
    /\ iteration = 0
    /\ problem = NullProblem
    /\ live = FALSE
    /\ cmd_i = 0
    /\ last_result = NoResult
    /\ skip_all = FALSE
    /\ dry_run = FALSE
    /\ confirmed = NoConfirm
    /\ exec_call = NoCall
    /\ llm_reply = NoReply
    /\ discoveries = 0
    /\ elapsed = FALSE
    /\ log_appended = <<>>
    /\ prompt = NoPrompt
    /\ cli_max_iterations = DefaultCliMaxIterations
    /\ returned = ChatCalled

\* one pass of the loop of chat: the request, then the return, the raise, or
\* the wait before the next pass; after the last pass line 104 raises
ChatRequest(answer) ==
    /\ pc = "chat"
    /\ returned.outcome = "running"
    /\ returned.value.attempt < ChatAttempts
    /\ LET v    == returned.value
           reqs == Append(v.requests, answer)
           t    == ChatTry(answer)
       IN  IF t.do = "return"
           THEN returned' = [returned EXCEPT !.outcome = "returned",
                                !.value = [v EXCEPT !.requests = reqs, !.text = t.text]]
           ELSE LET h == ChatExcept(t.e, v.attempt)
                IN  returned' =
                      [returned EXCEPT
                         !.outcome = IF h.do = "raise" THEN h.exc
                                     ELSE IF v.attempt + 1 < ChatAttempts THEN "running"
                                     ELSE "LLMError",
                         !.value = [v EXCEPT !.requests = reqs,
                                             !.slept = @ + h.wait,
                                             !.attempt = IF h.do = "continue" THEN @ + 1 ELSE @]]
    /\ UNCHANGED <<nodes, execution_order, pc, iteration, problem, live, cmd_i,
                   last_result, skip_all, dry_run, confirmed, exec_call, llm_reply,
                   discoveries, elapsed, log_appended, prompt, cli_max_iterations>>

NextChat == \E answer \in ApiAnswers : ChatRequest(answer)

SpecChat == InitChat /\ [][NextChat]_vars

\* the answers after which chat makes its next request, if it has one left
RetriedAnswers ==
    { a \in ApiAnswers :
        a.type \in {"RateLimitError", "APIConnectionError", "APITimeoutError"} }

\* C38: chat makes at most 3 requests per call: rate-limit, connection and
\* timeout errors are retried until the third attempt fails, authentication
\* and not-found errors are not retried, and the call ends either by
\* returning the reply text or by raising LLMError, no other exception.
C38_ChatThreeRequestsThenLLMError ==
    returned.op = "chat" =>
        LET reqs == returned.value.requests
            n    == Len(reqs)
        IN  /\ n <= 3
            /\ returned.outcome \in {"running", "returned", "LLMError"}
            /\ \A k \in 1..(n - 1) : reqs[k] \in RetriedAnswers
            /\ returned.outcome = "running" <=>
                  (n < 3 /\ (n > 0 => reqs[n] \in RetriedAnswers))
            /\ returned.outcome = "returned" <=>
                  (n > 0 /\ reqs[n].kind \in {"content", "no_content"})
            /\ returned.outcome = "returned" =>
                  returned.value.text =
                      (IF reqs[n].kind = "content" THEN <<"text">> ELSE <<>>)

\* two rate-limit answers and a connection error: three requests, LLMError
C38_Witness ==
    /\ returned.op = "chat"
    /\ returned.outcome = "LLMError"
    /\ Len(returned.value.requests) = 3
    /\ returned.value.requests[1].type = "RateLimitError"
    /\ returned.value.requests[2].type = "RateLimitError"
    /\ returned.value.requests[3].type = "APIConnectionError"

(***************************************************************************)
(* FixOrchestrator._parse_json and specification SpecParse: one call on    *)
(* every reply of up to MaxTokens tokens. A reply is a sequence of tokens: *)
(* "w" a word of prose, "{" and "}", "k" a member ("key": value), "fence"  *)
(* three backquotes with their language tag, "\n" a line break.           *)
(***************************************************************************)
ReplyTokens == {"w", "{", "}", "k", "fence", "\n"}

MaxTokens == 5

RawReplies == UNION { [1..n -> ReplyTokens] : n \in 0..MaxTokens }

\* str.strip() on a reply: the line breaks at both ends are cut
RECURSIVE StripLeft(_)
StripLeft(t) == IF t # <<>> /\ Head(t) = "\n" THEN StripLeft(Tail(t)) ELSE t

RECURSIVE StripRight(_)
StripRight(t) ==
    IF t # <<>> /\ t[Len(t)] = "\n" THEN StripRight(SubSeq(t, 1, Len(t) - 1)) ELSE t

StripText(t) == StripRight(StripLeft(t))

\* str.splitlines(): the lines of a text, without their line breaks
RECURSIVE SplitLines(_, _, _)
SplitLines(t, line, acc) ==
    IF t = <<>> THEN (IF line = <<>> THEN acc ELSE Append(acc, line))
    ELSE IF Head(t) = "\n" THEN SplitLines(Tail(t), <<>>, Append(acc, line))
    ELSE SplitLines(Tail(t), Append(line, Head(t)), acc)

\* "\n".join(lines)
RECURSIVE JoinLines(_)
JoinLines(lines) ==
    IF lines = <<>> THEN <<>>
    ELSE IF Len(lines) = 1 THEN lines[1]
    ELSE lines[1] \o <<"\n">> \o JoinLines(Tail(lines))

\* _parse_json lines 320-325: the lines that start with a fence are dropped
\* when the text starts with a fence
DropFenceLines(text) ==
    IF text # <<>> /\ Head(text) = "fence"
    THEN JoinLines(SelectSeq(SplitLines(text, <<>>, <<>>),
                             LAMBDA line : ~(line # <<>> /\ Head(line) = "fence")))
    ELSE text

\* json.loads on a text: the object it denotes (its tokens, white space
\* left out), or a JSONDecodeError
NoWhiteSpace(t) == SelectSeq(t, LAMBDA x : x # "\n")

JsonObjects == { <<"{", "}">>, <<"{", "k", "}">> }

json_loads(text) ==
    IF NoWhiteSpace(text) \in JsonObjects
    THEN [outcome |-> "returned", data |-> NoWhiteSpace(text)]
    ELSE [outcome |-> "JSONDecodeError", data |-> <<>>]

\* re.search(r"\{.*\}", text, re.DOTALL): from the first opening brace to the
\* last closing brace behind it; <<>> when there is no match
BraceMatch(text) ==
    LET opens  == { i \in 1..Len(text) : text[i] = "{" }
        first  == CHOOSE i \in opens : \A j \in opens : i <= j
        closes == { i \in 1..Len(text) : text[i] = "}" /\ opens # {} /\ i > first }
    IN  IF closes = {} THEN <<>>
        ELSE SubSeq(text, first, CHOOSE i \in closes : \A j \in closes : j <= i)

\* _parse_json(raw)
_parse_json(raw) ==
    LET text  == DropFenceLines(StripText(raw))
        whole == json_loads(text)
    IN  IF whole.outcome = "returned" THEN whole
        ELSE LET m == BraceMatch(text)
             IN  IF m # <<>> THEN json_loads(m)
                 ELSE [outcome |-> "ValueError", data |-> <<>>]

InitParse ==
    /\ nodes = <<>>
    /\ execution_order = <<>>
    /\ pc = "parse"
    /\ iteration = 0
    /\ problem = NullProblem
    /\ live = FALSE
    /\ cmd_i = 0
    /\ last_result = NoResult
    /\ skip_all = FALSE
    /\ dry_run = FALSE
    /\ confirmed = NoConfirm
    /\ exec_call = NoCall
    /\ llm_reply = NoReply
    /\ discoveries = 0
    /\ elapsed = FALSE
    /\ log_appended = <<>>
    /\ prompt = NoPrompt
    /\ cli_max_iterations = DefaultCliMaxIterations
    /\ \E raw \in RawReplies :
           returned = [op |-> "_parse_json", outcome |-> "called",
                       value |-> [raw |-> raw, data |-> <<>>]]

\* self._parse_json(raw) on the reply of the collaborator
ParseJsonCall ==
    /\ pc = "parse"
    /\ returned.outcome = "called"
    /\ LET r == _parse_json(returned.value.raw)
       IN  returned' = [returned EXCEPT !.outcome = r.outcome, !.value.data = r.data]
    /\ UNCHANGED <<nodes, execution_order, pc, iteration, problem, live, cmd_i,
                   last_result, skip_all, dry_run, confirmed, exec_call, llm_reply,
                   discoveries, elapsed, log_appended, prompt, cli_max_iterations>>

NextParse == ParseJsonCall

SpecParse == InitParse /\ [][NextParse]_vars

\* the JSON objects written out somewhere in a reply
ObjectsIn(raw) ==
    { NoWhiteSpace(SubSeq(raw, i, j)) : i \in 1..Len(raw), j \in 1..Len(raw) }
        \cap JsonObjects

\* C39: _parse_json returns the JSON object a reply contains whenever it
\* contains one, bare, inside a code fence at any position, or surrounded by
\* prose (prose with braces of its own included), and raises a parse error
\* only when the reply contains no JSON object at all.
C39_ParseJsonFindsTheObject ==
    (returned.op = "_parse_json" /\ returned.outcome # "called") =>
        IF ObjectsIn(returned.value.raw) # {}
        THEN /\ returned.outcome = "returned"
             /\ returned.value.data \in ObjectsIn(returned.value.raw)
        ELSE returned.outcome \in {"ValueError", "JSONDecodeError"}

====
